---- MODULE Spec2Model ----
(***************************************************************************)
(* serveradmin: the filter algebra (dataset/filters.py), the query         *)
(* compiler QuerySet._fetch_results (dataset/__init__.py) and the wire     *)
(* deserializer filter_from_obj, as state machines over a small inventory. *)
(*                                                                         *)
(* Python values are records of one shape, so that any two of them can be  *)
(* compared: kind names the Python type, and one of the other fields       *)
(* carries the content.  An IPv4 address, and every unsigned 32 bit        *)
(* number of the SQL side, is written as its four octets, most significant *)
(* first: lexicographic order on the octets is the order of the integers.  *)
(* A string is the sequence of its characters.                             *)
(***************************************************************************)
EXTENDS Integers, Sequences, FiniteSets

VARIABLES
    server_objs,    \* id -> the in-memory record (a dict: attribute -> value)
    admin_server,   \* table admin_server: server_id -> row of scalar columns
    attrib_values,  \* table attrib_values: set of rows (server_id, attrib_id, value)
    _filters,       \* QuerySet._filters: sequence of <<attribute, filter>>
    _restrict,      \* QuerySet._restrict: set of attribute names
    sql_stmt,       \* the candidate-id statement _fetch_results compiled
    statements,     \* the statements handed to cursor.execute, in order
    _results,       \* what _fetch_results returned (or the exception it raised)
    match_result,   \* id -> outcome of filter.matches(record, attribute)
    wire_obj,       \* the wire object handed to filter_from_obj
    parsed,         \* what filter_from_obj returned (or the exception it raised)
    filt,           \* a filter: the one serialized, the left operand of ==
    other_filt,     \* the right operand of ==
    eq_result,      \* outcome of filt == other, and the two hashes
    db_error,       \* the statements of the query the database fails to execute
    cast_attr,      \* the attribute name handed to filt.typecast
    cast,           \* what filt.typecast returned (or the exception it raised)
    lock,           \* holder of the MySQL lock 'serverobject_commit' (0: free)
    pc,             \* create_server call -> the statement it executes next
    call,           \* create_server call -> its arguments and local variables
    change_log,     \* the ChangeAdd rows, each with its ChangeCommit
    ip_range,       \* table ip_range: range_id -> row
    gw              \* the get_gateways call: its argument and local variables

typecastVars == <<cast_attr, cast>>
createVars == <<lock, pc, call, change_log>>
gatewayVars == <<ip_range, gw>>

vars == <<server_objs, admin_server, attrib_values, _filters, _restrict, sql_stmt,
          statements, _results, match_result, wire_obj, parsed, filt, other_filt, eq_result,
          db_error, typecastVars, createVars, gatewayVars>>

----------------------------------------------------------------------------
(* Bounds of the model. *)

MaxServers == 2      \* servers in the inventory
MaxNest == 2         \* nesting depth of Not / Optional around a leaf filter
MaxNets == 2         \* networks of one InsideNetwork filter

----------------------------------------------------------------------------
(* Python values. *)

NoDict == [k \in {} |-> 0]
PyVal(k, n, s, o, m, l, d) ==
    [kind |-> k, num |-> n, str |-> s, ip |-> o, items |-> m, elems |-> l, dict |-> d]
IntV(n) == PyVal("int", n, <<>>, <<>>, {}, <<>>, NoDict)
BoolV(b) == PyVal("bool", IF b THEN 1 ELSE 0, <<>>, <<>>, {}, <<>>, NoDict)
StrV(s) == PyVal("str", 0, s, <<>>, {}, <<>>, NoDict)
IPV(o) == PyVal("ip", 0, <<>>, o, {}, <<>>, NoDict)
SetV(m) == PyVal("set", 0, <<>>, <<>>, m, <<>>, NoDict)
ListV(l) == PyVal("list", 0, <<>>, <<>>, {}, l, NoDict)
DictV(d) == PyVal("dict", 0, <<>>, <<>>, {}, <<>>, d)
NoneV == PyVal("none", 0, <<>>, <<>>, {}, <<>>, NoDict)

\* An exception travelling up the call stack, as the value of the call.
Raise(exc) == [raise |-> exc]
IsRaise(v) == "raise" \in DOMAIN v

PyTrue == BoolV(TRUE)
PyFalse == BoolV(FALSE)
PyBool(b) == IF b THEN PyTrue ELSE PyFalse

\* Lexicographic order on sequences of numbers (octets, character codes).
RECURSIVE SeqLess(_, _)
SeqLess(s, t) ==
    IF t = <<>> THEN FALSE
    ELSE IF s = <<>> THEN TRUE
    ELSE IF Head(s) # Head(t) THEN Head(s) < Head(t)
    ELSE SeqLess(Tail(s), Tail(t))

\* ord(c): the code point of a character.
Letters == <<"a", "b", "c", "d", "e", "f", "g", "h", "i", "j", "k", "l", "m",
             "n", "o", "p", "q", "r", "s", "t", "u", "v", "w", "x", "y", "z">>
Capitals == <<"A", "B", "C", "D", "E", "F", "G", "H", "I", "J", "K", "L", "M",
              "N", "O", "P", "Q", "R", "S", "T", "U", "V", "W", "X", "Y", "Z">>
Numerals == <<"0", "1", "2", "3", "4", "5", "6", "7", "8", "9">>

IndexOf(seq, c) == CHOOSE i \in 1..Len(seq) : seq[i] = c
IsIn(seq, c) == \E i \in 1..Len(seq) : seq[i] = c

Ord(c) ==
    IF IsIn(Letters, c) THEN 96 + IndexOf(Letters, c)
    ELSE IF IsIn(Capitals, c) THEN 64 + IndexOf(Capitals, c)
    ELSE IF IsIn(Numerals, c) THEN 47 + IndexOf(Numerals, c)
    ELSE CASE c = "(" -> 40 [] c = "." -> 46 [] c = "/" -> 47 [] c = "<" -> 60
           [] c = "=" -> 61 [] c = ">" -> 62 [] c = "^" -> 94 [] c = "_" -> 95

Ords(s) == [i \in 1..Len(s) |-> Ord(s[i])]

DigitChar(d) == Numerals[d + 1]

\* The decimal digits of a natural number.
RECURSIVE Digits(_)
Digits(n) == IF n < 10 THEN <<DigitChar(n)>> ELSE Digits(n \div 10) \o <<DigitChar(n % 10)>>

\* Python: isinstance(v, (int, bool)); bool is a subclass of int.
IsNumber(v) == v.kind \in {"int", "bool"}

\* Python ==  on two values.
PyEq(x, y) ==
    IF IsNumber(x) /\ IsNumber(y) THEN x.num = y.num
    ELSE x = y

\* Python <  on two values of one type; the callers keep sets apart.
PyLt(x, y) ==
    IF IsNumber(x) /\ IsNumber(y) THEN x.num < y.num
    ELSE IF x.kind = "str" /\ y.kind = "str" THEN SeqLess(Ords(x.str), Ords(y.str))
    ELSE IF x.kind = "ip" /\ y.kind = "ip" THEN SeqLess(x.ip, y.ip)
    ELSE x.kind = "none" /\ y.kind # "none"    \* Python 2: None sorts first

PyLe(x, y) == PyLt(x, y) \/ PyEq(x, y)

\* Python 2: an ordering comparison with a set on either side and a
\* non-set on the other raises TypeError ("can only compare to a set").
OrderRaises(x, y) == (x.kind = "set") # (y.kind = "set")

\* str(v) / unicode(v) of a scalar value.
PyStr(v) ==
    CASE v.kind = "str" -> v.str
      [] v.kind = "int" -> Digits(v.num)
      [] v.kind = "bool" -> IF v.num = 1 THEN <<"T", "r", "u", "e">>
                                         ELSE <<"F", "a", "l", "s", "e">>
      [] v.kind = "ip" -> Digits(v.ip[1]) \o <<".">> \o Digits(v.ip[2]) \o <<".">>
                            \o Digits(v.ip[3]) \o <<".">> \o Digits(v.ip[4])
      [] OTHER -> <<"N", "o", "n", "e">>

\* str.startswith
StartsWith(s, p) == Len(p) <= Len(s) /\ SubSeq(s, 1, Len(p)) = p

\* Whether p occurs in s.
Contains(s, p) == \E i \in 0..(Len(s) - Len(p)) : SubSeq(s, i + 1, i + Len(p)) = p

----------------------------------------------------------------------------
(* ipaddress.ip_network and the address arithmetic the filters use. *)

Pow2(k) == <<1, 2, 4, 8, 16, 32, 64, 128, 256>>[k + 1]

\* The number of bits of octet i (1..4) that a prefix of length p covers.
PrefixBits(p, i) ==
    LET k == p - 8 * (i - 1) IN IF k < 0 THEN 0 ELSE IF k > 8 THEN 8 ELSE k

\* IPv4Network.network_address and .broadcast_address, as octets.
network_address(net) ==
    [i \in 1..4 |-> net.addr[i] - (net.addr[i] % Pow2(8 - PrefixBits(net.prefixlen, i)))]
broadcast_address(net) ==
    [i \in 1..4 |-> network_address(net)[i] + Pow2(8 - PrefixBits(net.prefixlen, i)) - 1]

IsDigit(c) == IsIn(Numerals, c)
DigitVal(c) == Ord(c) - 48

\* int(s) of a string of decimal digits.
RECURSIVE ParseNat(_)
ParseNat(s) ==
    IF Len(s) = 1 THEN DigitVal(s[1])
    ELSE 10 * ParseNat(SubSeq(s, 1, Len(s) - 1)) + DigitVal(s[Len(s)])

IsNumeral(s) == Len(s) \in 1..3 /\ \A i \in 1..Len(s) : IsDigit(s[i])

\* s.split(sep)
RECURSIVE Split(_, _)
Split(s, sep) ==
    IF \A i \in 1..Len(s) : s[i] # sep THEN <<s>>
    ELSE LET i == CHOOSE j \in 1..Len(s) :
                      s[j] = sep /\ \A k \in 1..(j - 1) : s[k] # sep
         IN <<SubSeq(s, 1, i - 1)>> \o Split(SubSeq(s, i + 1, Len(s)), sep)

\* ip_network(n): n is a network already, or the text "a.b.c.d/len".
\* A malformed text, an octet above 255, a prefix above 32 and an address
\* with host bits set (strict mode) raise ValueError.
ip_network(n) ==
    IF "prefixlen" \in DOMAIN n THEN n
    ELSE IF n.kind # "str" THEN Raise("ValueError")
    ELSE LET halves == Split(n.str, "/")
             octs == Split(halves[1], ".")
         IN IF Len(halves) # 2 \/ Len(octs) # 4 THEN Raise("ValueError")
            ELSE IF ~IsNumeral(halves[2]) \/ \E i \in 1..4 : ~IsNumeral(octs[i])
                 THEN Raise("ValueError")
            ELSE LET net == [addr |-> [i \in 1..4 |-> ParseNat(octs[i])],
                             prefixlen |-> ParseNat(halves[2])]
                 IN IF net.prefixlen > 32 \/ \E i \in 1..4 : net.addr[i] > 255
                    THEN Raise("ValueError")
                    ELSE IF network_address(net) # net.addr THEN Raise("ValueError")
                    ELSE net

\* str(network): "a.b.c.d/len"
NetStr(net) == PyStr(IPV(net.addr)) \o <<"/">> \o Digits(net.prefixlen)

----------------------------------------------------------------------------
(* re.compile and re.search, for the patterns of the model: literal        *)
(* characters, an optional leading "^", and "(" which nothing closes.      *)

re_compile_fails(regexp) == \E i \in 1..Len(regexp) : regexp[i] = "("

re_search(regexp, s) ==
    IF regexp # <<>> /\ Head(regexp) = "^" THEN StartsWith(s, Tail(regexp))
    ELSE Contains(s, regexp)

----------------------------------------------------------------------------
(* The filter classes: constructors.  A filter is a record whose name is   *)
(* its key in filter_classes; a constructor that raises yields the         *)
(* exception.                                                              *)

IsFilter(x) == "name" \in DOMAIN x

ExactMatch(value) == [name |-> "exactmatch", value |-> value]

\* _prepare_filter: a filter stays, any other value becomes ExactMatch.
_prepare_filter(filter) == IF IsFilter(filter) THEN filter ELSE ExactMatch(filter)

Regexp(regexp) ==
    IF re_compile_fails(regexp.str) THEN Raise("ValueError")
    ELSE [name |-> "regexp", regexp |-> regexp]

Comparators == {StrV(<<"<">>), StrV(<<">">>), StrV(<<"<", "=">>), StrV(<<">", "=">>)}

\* The message of the ValueError is u'...' + comparator, which itself
\* raises TypeError when comparator is not a string.
Comparison(comparator, value) ==
    IF comparator \notin Comparators
    THEN IF comparator.kind = "str" THEN Raise("ValueError") ELSE Raise("TypeError")
    ELSE [name |-> "comparison", comparator |-> comparator, value |-> value]

IsHashable(v) == v.kind \notin {"list", "dict", "set"}

\* set(values)
Any(values) ==
    IF \E i \in 1..Len(values) : ~IsHashable(values[i]) THEN Raise("TypeError")
    ELSE [name |-> "any", values |-> {values[i] : i \in 1..Len(values)}]

AndOr(name, filters) ==
    [name |-> name, filters |-> [i \in 1..Len(filters) |-> _prepare_filter(filters[i])]]
And(filters) == AndOr("and", filters)
Or(filters) == AndOr("or", filters)

Between(a, b) == [name |-> "between", a |-> a, b |-> b]

Not(filter) == [name |-> "not", filter |-> _prepare_filter(filter)]

Startswith(value) == [name |-> "startswith", value |-> value]

InsideNetwork(networks) ==
    LET nets == [i \in 1..Len(networks) |-> ip_network(networks[i])]
    IN IF \E i \in 1..Len(nets) : IsRaise(nets[i]) THEN Raise("ValueError")
       ELSE [name |-> "insidenetwork", networks |-> nets]

Net(a, b, c, d, len) == [addr |-> <<a, b, c, d>>, prefixlen |-> len]

\* PrivateIP.blocks
blocks == <<Net(10, 0, 0, 0, 8), Net(172, 16, 0, 0, 12), Net(192, 168, 0, 0, 16)>>

PrivateIP == [name |-> "privateip", filt |-> InsideNetwork(blocks)]
PublicIP == [name |-> "publicip", filt |-> Not(InsideNetwork(blocks))]

Optional(filter) == [name |-> "optional", filter |-> _prepare_filter(filter)]

Empty == [name |-> "empty"]

----------------------------------------------------------------------------
(* matches(server_obj, attr_name): the in-memory matcher.  The outcome is  *)
(* what Python hands back: True, False, or the exception raised.           *)

\* server_obj[attr_name]
GetItem(server_obj, attr_name) ==
    IF attr_name \in DOMAIN server_obj THEN server_obj[attr_name] ELSE Raise("KeyError")

\* Python truth of an outcome that is not an exception.
Truthy(v) ==
    CASE v.kind \in {"int", "bool"} -> v.num # 0
      [] v.kind = "none" -> FALSE
      [] v.kind = "str" -> v.str # <<>>
      [] v.kind = "set" -> v.items # {}
      [] v.kind = "list" -> v.elems # <<>>
      [] OTHER -> TRUE

RECURSIVE matches(_, _, _)

ExactMatch_matches(self, server_obj, attr_name) ==
    LET x == GetItem(server_obj, attr_name)
    IN IF IsRaise(x) THEN x ELSE PyBool(PyEq(x, self.value))

Regexp_matches(self, server_obj, attr_name) ==
    LET x == GetItem(server_obj, attr_name)
    IN IF IsRaise(x) THEN x ELSE PyBool(re_search(self.regexp.str, PyStr(x)))

\* The third and fourth branch compare the functions operator.le and
\* operator.gt with a string, which is never equal: "<=" and ">=" fall
\* through to the raise.
Comparison_matches(self, server_obj, attr_name) ==
    IF self.comparator \notin {StrV(<<"<">>), StrV(<<">">>)} THEN Raise("ValueError")
    ELSE LET x == GetItem(server_obj, attr_name)
         IN IF IsRaise(x) THEN x
            ELSE IF OrderRaises(x, self.value) THEN Raise("TypeError")
            ELSE IF self.comparator = StrV(<<"<">>) THEN PyBool(PyLt(x, self.value))
            ELSE PyBool(PyLt(self.value, x))

\* server_obj[attr_name] in self.values: set.__contains__ looks a set up
\* as its frozenset, which no operand equals, and raises TypeError for
\* another unhashable value.
Any_matches(self, server_obj, attr_name) ==
    LET x == GetItem(server_obj, attr_name)
    IN IF IsRaise(x) THEN x
       ELSE IF x.kind = "set" THEN PyFalse
       ELSE IF ~IsHashable(x) THEN Raise("TypeError")
       ELSE PyBool(\E v \in self.values : PyEq(x, v))

\* for filter in self.filters: if not filter.matches(...): return False
RECURSIVE And_loop(_, _, _)
And_loop(filters, server_obj, attr_name) ==
    IF filters = <<>> THEN PyTrue
    ELSE LET r == matches(Head(filters), server_obj, attr_name)
         IN IF IsRaise(r) THEN r
            ELSE IF ~Truthy(r) THEN PyFalse
            ELSE And_loop(Tail(filters), server_obj, attr_name)

And_matches(self, server_obj, attr_name) == And_loop(self.filters, server_obj, attr_name)

RECURSIVE Or_loop(_, _, _)
Or_loop(filters, server_obj, attr_name) ==
    IF filters = <<>> THEN PyFalse
    ELSE LET r == matches(Head(filters), server_obj, attr_name)
         IN IF IsRaise(r) THEN r
            ELSE IF Truthy(r) THEN PyTrue
            ELSE Or_loop(Tail(filters), server_obj, attr_name)

Or_matches(self, server_obj, attr_name) == Or_loop(self.filters, server_obj, attr_name)

\* Between.matches with the upper bound left out: self.a <= x < self.b.
Between_matches_exclusive(self, server_obj, attr_name) ==
    LET x == GetItem(server_obj, attr_name)
    IN IF IsRaise(x) THEN x
       ELSE IF OrderRaises(self.a, x) THEN Raise("TypeError")
       ELSE IF ~PyLe(self.a, x) THEN PyFalse
       ELSE IF OrderRaises(x, self.b) THEN Raise("TypeError")
       ELSE PyBool(PyLt(x, self.b))

\* self.a <= server_obj[attr_name] <= self.b
Between_matches(self, server_obj, attr_name) ==
    LET x == GetItem(server_obj, attr_name)
    IN IF IsRaise(x) THEN x
       ELSE IF OrderRaises(self.a, x) THEN Raise("TypeError")
       ELSE IF ~PyLe(self.a, x) THEN PyFalse
       ELSE IF OrderRaises(x, self.b) THEN Raise("TypeError")
       ELSE PyBool(PyLe(x, self.b))

\* not filter.matches(...) without the not.
Not_matches_unnegated(self, server_obj, attr_name) ==
    matches(self.filter, server_obj, attr_name)

Not_matches(self, server_obj, attr_name) ==
    LET r == matches(self.filter, server_obj, attr_name)
    IN IF IsRaise(r) THEN r ELSE PyBool(~Truthy(r))

\* unicode(server_obj[attr_name]).startswith(self.value)
Startswith_matches(self, server_obj, attr_name) ==
    LET x == GetItem(server_obj, attr_name)
    IN IF IsRaise(x) THEN x
       ELSE IF self.value.kind # "str" THEN Raise("TypeError")
       ELSE PyBool(StartsWith(PyStr(x), self.value.str))

\* any(net.min_ip <= server_obj[attr_name] <= net.max_ip for net in ...):
\* the networks are ipaddress networks, which have network_address and
\* broadcast_address and neither min_ip nor max_ip; the first network
\* looked at raises AttributeError.
InsideNetwork_matches(self, server_obj, attr_name) ==
    IF self.networks = <<>> THEN PyFalse ELSE Raise("AttributeError")

\* NoArgFilter.matches
NoArgFilter_matches(self, server_obj, attr_name) == matches(self.filt, server_obj, attr_name)

\* Optional.matches without the test for None.
Optional_matches_unguarded(self, server_obj, attr_name) ==
    matches(self.filter, server_obj, attr_name)

\* value = server_obj.get(attr_name); None counts as absent.
Optional_matches(self, server_obj, attr_name) ==
    LET value == IF attr_name \in DOMAIN server_obj THEN server_obj[attr_name] ELSE NoneV
    IN IF value.kind = "none" THEN PyTrue
       ELSE matches(self.filter, server_obj, attr_name)

\* len(v)
PyLen(v) ==
    CASE v.kind = "set" -> IntV(Cardinality(v.items))
      [] v.kind = "list" -> IntV(Len(v.elems))
      [] v.kind = "str" -> IntV(Len(v.str))
      [] OTHER -> Raise("TypeError")

Empty_matches(self, server_obj, attr_name) ==
    IF attr_name \notin DOMAIN server_obj THEN PyTrue
    ELSE LET n == PyLen(server_obj[attr_name])
         IN IF IsRaise(n) THEN n ELSE PyBool(n.num = 0)

matches(self, server_obj, attr_name) ==
    CASE self.name = "exactmatch" -> ExactMatch_matches(self, server_obj, attr_name)
      [] self.name = "regexp" -> Regexp_matches(self, server_obj, attr_name)
      [] self.name = "comparison" -> Comparison_matches(self, server_obj, attr_name)
      [] self.name = "any" -> Any_matches(self, server_obj, attr_name)
      [] self.name = "and" -> And_matches(self, server_obj, attr_name)
      [] self.name = "or" -> Or_matches(self, server_obj, attr_name)
      [] self.name = "between" -> Between_matches(self, server_obj, attr_name)
      [] self.name = "not" -> Not_matches(self, server_obj, attr_name)
      [] self.name = "startswith" -> Startswith_matches(self, server_obj, attr_name)
      [] self.name = "insidenetwork" -> InsideNetwork_matches(self, server_obj, attr_name)
      [] self.name \in {"privateip", "publicip"} ->
            NoArgFilter_matches(self, server_obj, attr_name)
      [] self.name = "optional" -> Optional_matches(self, server_obj, attr_name)
      [] self.name = "empty" -> Empty_matches(self, server_obj, attr_name)

----------------------------------------------------------------------------
(* The schema directory (serveradmin.dataset.base.lookups) of the model.   *)

\* An attribute object: pk and attrib_id both name its key in attrib_values.
AttrObj(name, type, multi, pk) ==
    [name |-> name, type |-> type, multi |-> multi, pk |-> pk, attrib_id |-> pk]

\* lookups.attr_names: attribute name -> attribute object.  pk 0 stands for
\* an attribute that lives in a column of admin_server.
attr_names ==
    [hostname |-> AttrObj("hostname", "string", FALSE, 0),
     intern_ip |-> AttrObj("intern_ip", "ip", FALSE, 0),
     segment |-> AttrObj("segment", "string", FALSE, 0),
     servertype |-> AttrObj("servertype", "string", FALSE, 0),
     cancelled |-> AttrObj("cancelled", "boolean", FALSE, 1),
     num_cpu |-> AttrObj("num_cpu", "integer", FALSE, 2),
     additional_ips |-> AttrObj("additional_ips", "ip", TRUE, 3),
     all_ips |-> AttrObj("all_ips", "ip", TRUE, 4)]

\* lookups.attr_ids: attrib_id -> attribute object.
attr_ids ==
    [pk \in {attr_names[a].pk : a \in DOMAIN attr_names} \ {0} |->
        CHOOSE o \in {attr_names[a] : a \in DOMAIN attr_names} : o.pk = pk]

\* lookups.stype_ids: servertype id -> servertype name.
stype_ids == <<StrV(<<"a">>), StrV(<<"a", "b">>), StrV(<<"b">>)>>

\* _fetch_results.attr_exceptions: attribute -> column of admin_server.
attr_exceptions ==
    [hostname |-> "hostname", intern_ip |-> "intern_ip",
     segment |-> "segment", servertype |-> "servertype_id"]

----------------------------------------------------------------------------
(* typecast(attr_name): the operands of a filter coerced to the type of    *)
(* the attribute.  The methods change the filter in place and return None; *)
(* the outcome is the filter as the call leaves it and the exception it    *)
(* raised, if any.                                                         *)

\* ip_address(text) of "a.b.c.d"
ParseIP(s) ==
    LET octs == Split(s, ".")
    IN IF Len(octs) # 4 \/ \E i \in 1..Len(octs) : ~IsNumeral(octs[i]) THEN Raise("ValueError")
       ELSE IF \E i \in 1..4 : ParseNat(octs[i]) > 255 THEN Raise("ValueError")
       ELSE IPV([i \in 1..4 |-> ParseNat(octs[i])])

\* serveradmin.dataset.typecast.typecast(attr_name, value, force_single=True):
\* the value in the type of the attribute.
typecast(attr_name, value) ==
    IF attr_name \notin DOMAIN attr_names THEN Raise("KeyError")
    ELSE CASE attr_names[attr_name].type = "integer" ->
                 IF value.kind = "int" THEN value
                 ELSE IF value.kind = "bool" THEN IntV(value.num)
                 ELSE IF value.kind = "str" /\ IsNumeral(value.str)
                 THEN IntV(ParseNat(value.str))
                 ELSE Raise("ValueError")
           [] attr_names[attr_name].type = "boolean" ->
                 IF value.kind = "bool" THEN value
                 ELSE IF value.kind = "str" THEN PyBool(value.str = <<"1">>)
                 ELSE IF value.kind = "int" THEN PyBool(value.num # 0)
                 ELSE Raise("ValueError")
           [] attr_names[attr_name].type = "ip" ->
                 IF value.kind = "ip" THEN value
                 ELSE IF value.kind = "str" THEN ParseIP(value.str)
                 ELSE Raise("ValueError")
           [] OTHER ->
                 IF value.kind \in {"str", "int", "bool", "ip"} THEN StrV(PyStr(value))
                 ELSE Raise("ValueError")

Cast(self, exc) == [self |-> self, raise |-> exc]

\* self.value = typecast(attr_name, self.value, force_single=True)
ExactMatch_typecast(self, attr_name) ==
    LET v == typecast(attr_name, self.value)
    IN IF IsRaise(v) THEN Cast(self, v.raise) ELSE Cast([self EXCEPT !.value = v], "")

Comparison_typecast(self, attr_name) ==
    LET v == typecast(attr_name, self.value)
    IN IF IsRaise(v) THEN Cast(self, v.raise) ELSE Cast([self EXCEPT !.value = v], "")

\* Any.typecast leaving its values as they are.
Any_typecast_skipped(self, attr_name) == Cast(self, "")

\* self.values = set(typecast(attr_name, x, force_single=True) for x in self.values)
Any_typecast(self, attr_name) ==
    LET vs == {typecast(attr_name, x) : x \in self.values}
    IN IF \E v \in vs : IsRaise(v) THEN Cast(self, (CHOOSE v \in vs : IsRaise(v)).raise)
       ELSE Cast([self EXCEPT !.values = vs], "")

\* self.a = typecast(..); self.b = typecast(..): a is stored before b is cast
Between_typecast(self, attr_name) ==
    LET a == typecast(attr_name, self.a)
        b == typecast(attr_name, self.b)
    IN IF IsRaise(a) THEN Cast(self, a.raise)
       ELSE IF IsRaise(b) THEN Cast([self EXCEPT !.a = a], b.raise)
       ELSE Cast([self EXCEPT !.a = a, !.b = b], "")

\* self.value = unicode(self.value)
Startswith_typecast(self, attr_name) ==
    Cast([self EXCEPT !.value = StrV(PyStr(self.value))], "")

\* Regexp, InsideNetwork, NoArgFilter, Empty: pass
Pass_typecast(self, attr_name) == Cast(self, "")

RECURSIVE filter_typecast(_, _)

\* _AndOr.typecast casting its first filter only.
AndOr_typecast_first_only(self, attr_name) ==
    IF self.filters = <<>> THEN Cast(self, "")
    ELSE LET c == filter_typecast(self.filters[1], attr_name)
         IN Cast([self EXCEPT !.filters[1] = c.self], c.raise)

\* for filt in self.filters: filt.typecast(attr_name), from filter i on
RECURSIVE AndOr_typecast_loop(_, _, _)
AndOr_typecast_loop(self, i, attr_name) ==
    IF i > Len(self.filters) THEN Cast(self, "")
    ELSE LET c == filter_typecast(self.filters[i], attr_name)
         IN IF c.raise # "" THEN Cast([self EXCEPT !.filters[i] = c.self], c.raise)
            ELSE AndOr_typecast_loop([self EXCEPT !.filters[i] = c.self], i + 1, attr_name)

AndOr_typecast(self, attr_name) == AndOr_typecast_loop(self, 1, attr_name)

\* Not, Optional: self.filter.typecast(attr_name)
Wrapper_typecast(self, attr_name) ==
    LET c == filter_typecast(self.filter, attr_name)
    IN Cast([self EXCEPT !.filter = c.self], c.raise)

\* filt.typecast(attr_name), by the class of filt
filter_typecast(self, attr_name) ==
    CASE self.name = "exactmatch" -> ExactMatch_typecast(self, attr_name)
      [] self.name = "comparison" -> Comparison_typecast(self, attr_name)
      [] self.name = "any" -> Any_typecast(self, attr_name)
      [] self.name \in {"and", "or"} -> AndOr_typecast(self, attr_name)
      [] self.name = "between" -> Between_typecast(self, attr_name)
      [] self.name \in {"not", "optional"} -> Wrapper_typecast(self, attr_name)
      [] self.name = "startswith" -> Startswith_typecast(self, attr_name)
      [] OTHER -> Pass_typecast(self, attr_name)

----------------------------------------------------------------------------
(* Numbers of the SQL side.  MySQL compares a varchar with a number by     *)
(* reading the varchar as a number; an unsigned 32 bit number is kept as   *)
(* its four octets, and its decimal text is computed digit by digit.       *)

\* digits * m + carry, on a sequence of decimal digits (most significant first)
RECURSIVE MulAdd(_, _, _)
MulAdd(d, m, carry) ==
    IF d = <<>> THEN (IF carry = 0 THEN <<>> ELSE MulAdd(<<>>, m, carry \div 10) \o <<carry % 10>>)
    ELSE LET x == d[Len(d)] * m + carry
         IN MulAdd(SubSeq(d, 1, Len(d) - 1), m, x \div 10) \o <<x % 10>>

\* The decimal text of the number with these octets.
RECURSIVE OctetsDigits(_)
OctetsDigits(o) ==
    IF o = <<>> THEN <<>>
    ELSE MulAdd(OctetsDigits(SubSeq(o, 1, Len(o) - 1)), 256, o[Len(o)])

DecimalText(o) ==
    LET d == OctetsDigits(o)
    IN IF d = <<>> THEN <<"0">> ELSE [i \in 1..Len(d) |-> DigitChar(d[i])]

\* Long division of a sequence of decimal digits by 256: quotient digits
\* (leading zeros kept) and remainder.
RECURSIVE DivMod256(_, _)
DivMod256(d, rem) ==
    IF d = <<>> THEN [quot |-> <<>>, rem |-> rem]
    ELSE LET cur == rem * 10 + Head(d)
             rest == DivMod256(Tail(d), cur % 256)
         IN [quot |-> <<cur \div 256>> \o rest.quot, rem |-> rest.rem]

\* The octets (most significant first) of the number a sequence of decimal
\* digits spells, modulo 2^32.
DigitsOctets(d) ==
    LET q1 == DivMod256(d, 0)
        q2 == DivMod256(q1.quot, 0)
        q3 == DivMod256(q2.quot, 0)
        q4 == DivMod256(q3.quot, 0)
    IN <<q4.rem, q3.rem, q2.rem, q1.rem>>

\* The longest prefix of s made of digits.
RECURSIVE LeadingDigits(_)
LeadingDigits(s) ==
    IF s = <<>> \/ ~IsDigit(Head(s)) THEN <<>> ELSE <<Head(s)>> \o LeadingDigits(Tail(s))

TextOctets(s) ==
    LET lead == LeadingDigits(s) IN DigitsOctets([i \in 1..Len(lead) |-> DigitVal(lead[i])])

\* The number a non-NULL SQL value denotes, as octets.
SqlNum(v) ==
    CASE v.kind = "ip" -> v.ip
      [] v.kind = "str" -> TextOctets(v.str)
      [] OTHER -> TextOctets(Digits(v.num))

\* The text a non-NULL SQL value denotes.
SqlText(v) ==
    CASE v.kind = "str" -> v.str
      [] v.kind = "ip" -> DecimalText(v.ip)
      [] OTHER -> Digits(v.num)

\* INET_NTOA(v)
INET_NTOA(v) == PyStr(IPV(SqlNum(v)))

\* x compared with y: "null" when either is NULL, else "lt", "eq" or "gt".
\* Two varchars compare as text, anything else as numbers.
SqlCompare(x, y) ==
    IF x.kind = "none" \/ y.kind = "none" THEN "null"
    ELSE LET a == IF x.kind = "str" /\ y.kind = "str" THEN Ords(x.str) ELSE SqlNum(x)
             b == IF x.kind = "str" /\ y.kind = "str" THEN Ords(y.str) ELSE SqlNum(y)
         IN IF a = b THEN "eq" ELSE IF SeqLess(a, b) THEN "lt" ELSE "gt"

----------------------------------------------------------------------------
(* SQL values and literals.  A varchar is a str; a number is an int or,    *)
(* above 255, its octets (kind ip); NULL is none.                          *)

SqlNull == NoneV

\* sqlhelpers.value_to_sql: the literal of a typed operand.
value_to_sql(attr_obj, value) ==
    CASE attr_obj.type = "boolean" -> StrV(IF Truthy(value) THEN <<"1">> ELSE <<"0">>)
      [] attr_obj.type = "integer" -> IntV(value.num)
      [] attr_obj.type = "ip" -> IPV(value.ip)
      [] OTHER -> StrV(PyStr(value))

\* sqlhelpers.prepare_value: the text stored in attrib_values.value.
prepare_value(attr_obj, value) ==
    CASE attr_obj.type = "boolean" -> StrV(IF Truthy(value) THEN <<"1">> ELSE <<"0">>)
      [] attr_obj.type = "integer" -> StrV(Digits(value.num))
      [] attr_obj.type = "ip" -> StrV(DecimalText(value.ip))
      [] OTHER -> StrV(PyStr(value))

----------------------------------------------------------------------------
(* as_sql_expr(builder, attr_obj, field): the fragment as a syntax tree.   *)
(* builder is the alias counter of the compilation: get_uid hands out its  *)
(* value and advances it.  The result carries the fragment (or the         *)
(* exception raised) and the counter after the call.                       *)

Field(tbl, idx, col) == [tbl |-> tbl, idx |-> idx, col |-> col]
Compiled(sql, builder) == [sql |-> sql, builder |-> builder]

SqlFalse == [op |-> "0 = 1"]
SqlEq(field, lit) == [op |-> "=", field |-> field, value |-> lit]
SqlNe(field, lit) == [op |-> "!=", field |-> field, value |-> lit]
SqlIsNull(field) == [op |-> "IS NULL", field |-> field]
SqlCmp(field, comparator, lit) ==
    [op |-> "cmp", field |-> field, comparator |-> comparator, value |-> lit]
SqlIn(field, lits) == [op |-> "IN", field |-> field, values |-> lits]
SqlBetween(field, a, b) == [op |-> "BETWEEN", field |-> field, a |-> a, b |-> b]
SqlJunction(op, args) == [op |-> op, args |-> args]     \* "(x OR y)", "(x AND y)"
SqlNot(arg) == [op |-> "NOT", arg |-> arg]
SqlLike(fn, field, prefix) == [op |-> "LIKE", fn |-> fn, field |-> field, prefix |-> prefix]
SqlRegexp(fn, field, regexp) ==
    [op |-> "REGEXP", fn |-> fn, field |-> field, regexp |-> regexp]
\* [NOT] EXISTS (SELECT .. FROM attrib_values AS nav<uid> WHERE <conds> AND
\*   nav<uid>.server_id = adms.server_id AND nav<uid>.attrib_id = <attrib_id>)
SqlExists(op, uid, attrib_id, conds) ==
    [op |-> op, uid |-> uid, attrib_id |-> attrib_id, conds |-> conds]

RECURSIVE as_sql_expr(_, _, _, _)

ExactMatch_as_sql_expr(self, builder, attr_obj, field) ==
    IF attr_obj.type = "boolean" /\ ~Truthy(self.value)
    THEN Compiled(SqlJunction("OR", <<SqlEq(field, StrV(<<"0">>)), SqlIsNull(field)>>), builder)
    ELSE Compiled(SqlEq(field, value_to_sql(attr_obj, self.value)), builder)

\* The servertype ids whose name the predicate accepts.
StypeIds(Accepts(_)) == {IntV(pk) : pk \in {i \in DOMAIN stype_ids : Accepts(stype_ids[i])}}

Regexp_as_sql_expr(self, builder, attr_obj, field) ==
    IF attr_obj.name = "servertype"
    THEN LET Accepts(stype) == re_search(self.regexp.str, stype.str)
         IN IF StypeIds(Accepts) # {} THEN Compiled(SqlIn(field, StypeIds(Accepts)), builder)
            ELSE Compiled(SqlFalse, builder)
    ELSE IF attr_obj.type = "ip"
    THEN Compiled(SqlRegexp("INET_NTOA", field, self.regexp.str), builder)
    ELSE Compiled(SqlRegexp("", field, self.regexp.str), builder)

Comparison_as_sql_expr(self, builder, attr_obj, field) ==
    Compiled(SqlCmp(field, self.comparator, value_to_sql(attr_obj, self.value)), builder)

Any_as_sql_expr(self, builder, attr_obj, field) ==
    IF self.values = {} THEN Compiled(SqlFalse, builder)
    ELSE Compiled(SqlIn(field, {value_to_sql(attr_obj, v) : v \in self.values}), builder)

\* The children's fragments in order, each compiled with the counter the
\* one before left; the first exception ends the compilation.
RECURSIVE CompileAll(_, _, _, _)
CompileAll(filters, builder, attr_obj, field) ==
    IF filters = <<>> THEN [parts |-> <<>>, builder |-> builder, raise |-> ""]
    ELSE LET first == as_sql_expr(Head(filters), builder, attr_obj, field)
             rest == CompileAll(Tail(filters), first.builder, attr_obj, field)
         IN IF IsRaise(first.sql)
            THEN [parts |-> <<>>, builder |-> first.builder, raise |-> first.sql.raise]
            ELSE [rest EXCEPT !.parts = <<first.sql>> \o @]

AndOr_as_sql_expr(self, builder, attr_obj, field) ==
    LET all == CompileAll(self.filters, builder, attr_obj, field)
    IN IF all.raise # "" THEN Compiled(Raise(all.raise), all.builder)
       ELSE Compiled(SqlJunction(IF self.name = "and" THEN "AND" ELSE "OR", all.parts),
                     all.builder)

Between_as_sql_expr(self, builder, attr_obj, field) ==
    Compiled(SqlBetween(field, value_to_sql(attr_obj, self.a), value_to_sql(attr_obj, self.b)),
             builder)

\* Not.as_sql_expr without its two special cases: a child Empty and a child
\* ExactMatch are negated as every other child is.
Not_as_sql_expr_plain(self, builder, attr_obj, field) ==
    IF attr_obj.multi
    THEN LET uid == builder
             cond == as_sql_expr(self.filter, builder + 1, attr_obj, Field("nav", uid, "value"))
         IN IF IsRaise(cond.sql) THEN cond
            ELSE Compiled(SqlExists("NOT EXISTS", uid, attr_obj.attrib_id, <<cond.sql>>),
                          cond.builder)
    ELSE LET cond == as_sql_expr(self.filter, builder, attr_obj, field)
         IN IF IsRaise(cond.sql) THEN cond ELSE Compiled(SqlNot(cond.sql), cond.builder)

\* Not.as_sql_expr compiling its child with the counter as it was before
\* get_uid: the child is handed the uid of its parent again.
Not_as_sql_expr_same_uid(self, builder, attr_obj, field) ==
    IF attr_obj.multi
    THEN LET uid == builder
         IN IF self.filter.name = "empty"
            THEN Compiled(SqlExists("EXISTS", uid, attr_obj.attrib_id, <<>>), builder + 1)
            ELSE LET cond == as_sql_expr(self.filter, builder, attr_obj,
                                         Field("nav", uid, "value"))
                 IN IF IsRaise(cond.sql) THEN cond
                    ELSE Compiled(SqlExists("NOT EXISTS", uid, attr_obj.attrib_id, <<cond.sql>>),
                                  cond.builder + 1)
    ELSE IF self.filter.name = "exactmatch"
    THEN Compiled(SqlNe(field, value_to_sql(attr_obj, self.filter.value)), builder)
    ELSE LET cond == as_sql_expr(self.filter, builder, attr_obj, field)
         IN IF IsRaise(cond.sql) THEN cond ELSE Compiled(SqlNot(cond.sql), cond.builder)

\* uid = builder.get_uid(): the counter of the compilation, handed out and
\* advanced.
Not_as_sql_expr(self, builder, attr_obj, field) ==
    IF attr_obj.multi
    THEN LET uid == builder
         IN IF self.filter.name = "empty"
            THEN Compiled(SqlExists("EXISTS", uid, attr_obj.attrib_id, <<>>), builder + 1)
            ELSE LET cond == as_sql_expr(self.filter, builder + 1, attr_obj,
                                         Field("nav", uid, "value"))
                 IN IF IsRaise(cond.sql) THEN cond
                    ELSE Compiled(SqlExists("NOT EXISTS", uid, attr_obj.attrib_id, <<cond.sql>>),
                                  cond.builder)
    ELSE IF self.filter.name = "exactmatch"
    THEN Compiled(SqlNe(field, value_to_sql(attr_obj, self.filter.value)), builder)
    ELSE LET cond == as_sql_expr(self.filter, builder, attr_obj, field)
         IN IF IsRaise(cond.sql) THEN cond ELSE Compiled(SqlNot(cond.sql), cond.builder)

\* The integer branch formats "{0} LIKE '{1}%'" with one argument: when
\* int(self.value) succeeds, format raises IndexError, which the except
\* clause (ValueError) does not catch.
Startswith_as_sql_expr(self, builder, attr_obj, field) ==
    IF attr_obj.name = "servertype"
    THEN IF self.value.kind # "str" THEN Compiled(Raise("TypeError"), builder)
         ELSE LET Accepts(stype) == StartsWith(stype.str, self.value.str)
              IN IF StypeIds(Accepts) # {}
                 THEN Compiled(SqlIn(field, StypeIds(Accepts)), builder)
                 ELSE Compiled(SqlFalse, builder)
    ELSE IF attr_obj.type = "ip"
    THEN Compiled(SqlLike("INET_NTOA", field, PyStr(self.value)), builder)
    ELSE IF attr_obj.type = "string"
    THEN IF self.value.kind # "str" THEN Compiled(Raise("AttributeError"), builder)
         ELSE Compiled(SqlLike("", field, self.value.str), builder)
    ELSE IF attr_obj.type = "integer"
    THEN IF IsNumber(self.value) \/ (self.value.kind = "str" /\ IsNumeral(self.value.str))
         THEN Compiled(Raise("IndexError"), builder)
         ELSE IF self.value.kind = "str" THEN Compiled(SqlFalse, builder)
         ELSE Compiled(Raise("TypeError"), builder)
    ELSE Compiled(SqlFalse, builder)

\* int(net.network_address), int(net.broadcast_address)
InsideNetwork_as_sql_expr(self, builder, attr_obj, field) ==
    Compiled(SqlJunction("OR",
                 [i \in 1..Len(self.networks) |->
                     SqlBetween(field, IPV(network_address(self.networks[i])),
                                       IPV(broadcast_address(self.networks[i])))]),
             builder)

\* NoArgFilter.as_sql_expr
NoArgFilter_as_sql_expr(self, builder, attr_obj, field) ==
    as_sql_expr(self.filt, builder, attr_obj, field)

Optional_as_sql_expr(self, builder, attr_obj, field) ==
    LET cond == as_sql_expr(self.filter, builder, attr_obj, field)
    IN IF IsRaise(cond.sql) THEN cond
       ELSE Compiled(SqlJunction("OR", <<SqlIsNull(field), cond.sql>>), cond.builder)

Empty_as_sql_expr(self, builder, attr_obj, field) == Compiled(SqlIsNull(field), builder)

as_sql_expr(self, builder, attr_obj, field) ==
    CASE self.name = "exactmatch" -> ExactMatch_as_sql_expr(self, builder, attr_obj, field)
      [] self.name = "regexp" -> Regexp_as_sql_expr(self, builder, attr_obj, field)
      [] self.name = "comparison" -> Comparison_as_sql_expr(self, builder, attr_obj, field)
      [] self.name = "any" -> Any_as_sql_expr(self, builder, attr_obj, field)
      [] self.name \in {"and", "or"} -> AndOr_as_sql_expr(self, builder, attr_obj, field)
      [] self.name = "between" -> Between_as_sql_expr(self, builder, attr_obj, field)
      [] self.name = "not" -> Not_as_sql_expr(self, builder, attr_obj, field)
      [] self.name = "startswith" -> Startswith_as_sql_expr(self, builder, attr_obj, field)
      [] self.name = "insidenetwork" ->
            InsideNetwork_as_sql_expr(self, builder, attr_obj, field)
      [] self.name \in {"privateip", "publicip"} ->
            NoArgFilter_as_sql_expr(self, builder, attr_obj, field)
      [] self.name = "optional" -> Optional_as_sql_expr(self, builder, attr_obj, field)
      [] self.name = "empty" -> Empty_as_sql_expr(self, builder, attr_obj, field)

----------------------------------------------------------------------------
(* Evaluation of a fragment: three-valued, "T", "F" or "U" (NULL).         *)
(* env binds adms to a row of admin_server and the aliases av<i>, nav<i>   *)
(* to rows of attrib_values; db holds the two tables.                      *)

NullRow == [server_id |-> 0, attrib_id |-> 0, value |-> SqlNull]

Truth(b) == IF b THEN "T" ELSE "F"
Not3(t) == IF t = "T" THEN "F" ELSE IF t = "F" THEN "T" ELSE "U"
And3(ts) == IF "F" \in ts THEN "F" ELSE IF "U" \in ts THEN "U" ELSE "T"
Or3(ts) == IF "T" \in ts THEN "T" ELSE IF "U" \in ts THEN "U" ELSE "F"

FieldVal(field, env) ==
    IF field.tbl = "adms" THEN env.adms[field.col]
    ELSE IF field.tbl = "av" THEN env.av[field.idx][field.col]
    ELSE env.nav[field.idx][field.col]

Bind(f, idx, row) == [i \in DOMAIN f \cup {idx} |-> IF i = idx THEN row ELSE f[i]]

\* Whether the outcome of a comparison is one of those accepted.
Accept(c, accepted) == IF c = "null" THEN "U" ELSE Truth(c \in accepted)

\* The outcomes a comparison operator accepts.
Accepted(comparator) ==
    CASE comparator = <<"<">> -> {"lt"}
      [] comparator = <<">">> -> {"gt"}
      [] comparator = <<"<", "=">> -> {"lt", "eq"}
      [] comparator = <<">", "=">> -> {"gt", "eq"}
      [] comparator = <<"=">> -> {"eq"}
      [] comparator = <<"!", "=">> -> {"lt", "gt"}

\* v <comparator> lit
Compare3(v, comparator, lit) == Accept(SqlCompare(v, lit), Accepted(comparator))

\* The text a function of the fragment is applied to.
TextOf(fn, v) == IF fn = "INET_NTOA" THEN INET_NTOA(v) ELSE SqlText(v)

\* A fragment that tests the value v of one field.
EvalField(e, v) ==
    CASE e.op \in {"=", "!="} -> Compare3(v, IF e.op = "=" THEN <<"=">> ELSE <<"!", "=">>, e.value)
      [] e.op = "IS NULL" -> Truth(v.kind = "none")
      [] e.op = "cmp" -> Compare3(v, e.comparator.str, e.value)
      [] e.op = "IN" ->
            IF v.kind = "none" THEN "U"
            ELSE Or3({Compare3(v, <<"=">>, lit) : lit \in e.values} \cup {"F"})
      [] e.op = "BETWEEN" ->
            And3({Compare3(v, bound[1], bound[2]) :
                     bound \in {<<<<">", "=">>, e.a>>, <<<<"<", "=">>, e.b>>}})
      [] e.op = "LIKE" ->
            IF v.kind = "none" THEN "U" ELSE Truth(StartsWith(TextOf(e.fn, v), e.prefix))
      [] e.op = "REGEXP" ->
            IF v.kind = "none" THEN "U" ELSE Truth(re_search(e.regexp, TextOf(e.fn, v)))

RECURSIVE Eval(_, _, _)
Eval(e, env, db) ==
    CASE e.op = "0 = 1" -> "F"
      [] e.op \in {"=", "!=", "IS NULL", "cmp", "IN", "BETWEEN", "LIKE", "REGEXP"} ->
            EvalField(e, FieldVal(e.field, env))
      [] e.op = "AND" -> And3({Eval(e.args[i], env, db) : i \in 1..Len(e.args)})
      [] e.op = "OR" -> Or3({Eval(e.args[i], env, db) : i \in 1..Len(e.args)})
      [] e.op = "NOT" -> Not3(Eval(e.arg, env, db))
      [] e.op \in {"EXISTS", "NOT EXISTS"} ->
            LET found == \E row \in db.attrib_values :
                            /\ row.server_id = env.adms.server_id
                            /\ row.attrib_id = e.attrib_id
                            /\ \A i \in 1..Len(e.conds) :
                                  Eval(e.conds[i],
                                       [env EXCEPT !.nav = Bind(env.nav, e.uid, row)], db) = "T"
            IN Truth(found = (e.op = "EXISTS"))
      [] e.op = "av.server_id = adms.server_id" ->
            IF env.av[e.idx] = NullRow THEN "U"
            ELSE Truth(env.av[e.idx].server_id = env.adms.server_id)
      [] e.op = "av.attrib_id =" ->
            IF env.av[e.idx] = NullRow THEN "U"
            ELSE Truth(env.av[e.idx].attrib_id = e.attrib_id)

\* "()" is what a junction of no fragments is rendered as, which MySQL
\* rejects: the statement that holds one fails to execute.
RECURSIVE IsMalformed(_)
IsMalformed(e) ==
    CASE e.op \in {"AND", "OR"} ->
            e.args = <<>> \/ \E i \in 1..Len(e.args) : IsMalformed(e.args[i])
      [] e.op = "NOT" -> IsMalformed(e.arg)
      [] e.op \in {"EXISTS", "NOT EXISTS"} ->
            \E i \in 1..Len(e.conds) : IsMalformed(e.conds[i])
      [] OTHER -> FALSE

----------------------------------------------------------------------------
(* The rows create._insert_server writes for one server.                   *)

\* INSERT INTO admin_server (hostname, intern_ip, servertype_id, segment, ..)
AdminRow(server_id, hostname, intern_ip, segment, servertype_id) ==
    [server_id |-> server_id, hostname |-> hostname, intern_ip |-> IPV(intern_ip.ip),
     segment |-> segment, servertype_id |-> IntV(servertype_id)]

\* INSERT INTO attrib_values (server_id, attrib_id, value): one row per
\* value of a multi attribute, one row for any other attribute.
AttribRows(server_id, attributes) ==
    UNION {LET attr_obj == attr_names[attr_name]
               value == attributes[attr_name]
           IN IF attr_obj.multi
              THEN {[server_id |-> server_id, attrib_id |-> attr_obj.pk,
                     value |-> prepare_value(attr_obj, single_value)] :
                        single_value \in value.items}
              ELSE {[server_id |-> server_id, attrib_id |-> attr_obj.pk,
                     value |-> prepare_value(attr_obj, value)]} :
           attr_name \in DOMAIN attributes}

----------------------------------------------------------------------------
(* QuerySet._fetch_results: the compilation of the candidate-id statement. *)

JoinServer(i) == [op |-> "av.server_id = adms.server_id", idx |-> i]
JoinAttrib(i, pk) == [op |-> "av.attrib_id =", idx |-> i, attrib_id |-> pk]

\* isinstance(f, _Optional) widened to Not.
IsOptional_or_Not(f) == f.name \in {"optional", "not"}

\* isinstance(f, _Optional): _Optional is filters.Optional
IsOptional(f) == f.name = "optional"

\* One turn of the loop over self._filters: acc holds i, the three lists
\* and the alias counter of the compilation.  The loop writes the call as
\* f.as_sql_expr(attr, attr_field), while the filters take (builder,
\* attr_obj, field): the call is modelled with the arguments the filters
\* read, the builder of this compilation, lookups.attr_names[attr] and
\* attr_field.
CompileOne(acc, attr, f) ==
    IF attr \notin DOMAIN attr_names THEN [acc EXCEPT !.raise = "KeyError"]
    ELSE IF attr \in DOMAIN attr_exceptions
    THEN LET attr_field == Field("adms", 0, attr_exceptions[attr])
             c == as_sql_expr(f, acc.builder, attr_names[attr], attr_field)
         IN IF IsRaise(c.sql) THEN [acc EXCEPT !.raise = c.sql.raise]
            ELSE IF IsOptional(f)
            THEN [acc EXCEPT !.builder = c.builder,
                             !.sql_where = @ \o <<SqlJunction("OR",
                                                     <<SqlIsNull(attr_field), c.sql>>)>>]
            ELSE [acc EXCEPT !.builder = c.builder, !.sql_where = @ \o <<c.sql>>]
    ELSE LET attr_field == Field("av", acc.i, "value")
             c == as_sql_expr(f, acc.builder, attr_names[attr], attr_field)
         IN IF IsRaise(c.sql) THEN [acc EXCEPT !.raise = c.sql.raise]
            ELSE IF IsOptional(f)
            THEN [acc EXCEPT !.builder = c.builder, !.i = @ + 1,
                             !.sql_left_joins = @ \o
                                 <<[idx |-> acc.i,
                                    on |-> <<JoinServer(acc.i),
                                             JoinAttrib(acc.i, attr_names[attr].pk),
                                             c.sql>>]>>]
            ELSE [acc EXCEPT !.builder = c.builder, !.i = @ + 1,
                             !.sql_from = @ \o <<acc.i>>,
                             !.sql_where = @ \o <<JoinServer(acc.i),
                                                  JoinAttrib(acc.i, attr_names[attr].pk),
                                                  c.sql>>]

RECURSIVE CompileLoop(_, _)
CompileLoop(acc, filters) ==
    IF filters = <<>> \/ acc.raise # "" THEN acc
    ELSE CompileLoop(CompileOne(acc, Head(filters)[1], Head(filters)[2]), Tail(filters))

\* SELECT adms.server_id, .. FROM admin_server AS adms, <sql_from>
\* <sql_left_joins> WHERE <sql_where> GROUP BY adms.server_id
CompileStatement(filters) ==
    CompileLoop([i |-> 0, builder |-> 0, sql_left_joins |-> <<>>, sql_from |-> <<>>,
                 sql_where |-> <<>>, raise |-> ""], filters)

----------------------------------------------------------------------------
(* The execution of a compiled statement by the database.                  *)

Range(s) == {s[i] : i \in 1..Len(s)}

\* The rows the LEFT JOINs add to one row of the product: each row of
\* attrib_values that satisfies ON, or the NULL row when none does.
RECURSIVE LeftJoin(_, _, _)
LeftJoin(envs, joins, db) ==
    IF joins = <<>> THEN envs
    ELSE LET j == Head(joins)
             Joined(env) ==
                LET hits == {row \in db.attrib_values :
                               \A k \in 1..Len(j.on) :
                                  Eval(j.on[k], [env EXCEPT !.av = Bind(env.av, j.idx, row)],
                                       db) = "T"}
                IN IF hits = {} THEN {[env EXCEPT !.av = Bind(env.av, j.idx, NullRow)]}
                   ELSE {[env EXCEPT !.av = Bind(env.av, j.idx, row)] : row \in hits}
         IN LeftJoin(UNION {Joined(env) : env \in envs}, Tail(joins), db)

\* The candidate-id statement handing on only the ids that one row of the
\* join stands for.
SelectIds_of_single_rows(stmt, db) ==
    {s \in DOMAIN db.admin_server :
        Cardinality({env \in LeftJoin({[adms |-> db.admin_server[s], av |-> b, nav |-> <<>>] :
                                          b \in [Range(stmt.sql_from) -> db.attrib_values]},
                                      stmt.sql_left_joins, db) :
                        \A k \in 1..Len(stmt.sql_where) : Eval(stmt.sql_where[k], env, db) = "T"})
           = 1}

\* The server ids the candidate-id statement selects (GROUP BY leaves
\* each id once).
SelectIds(stmt, db) ==
    {s \in DOMAIN db.admin_server :
        \E env \in LeftJoin({[adms |-> db.admin_server[s], av |-> b, nav |-> <<>>] :
                                b \in [Range(stmt.sql_from) -> db.attrib_values]},
                            stmt.sql_left_joins, db) :
            \A k \in 1..Len(stmt.sql_where) : Eval(stmt.sql_where[k], env, db) = "T"}

StatementMalformed(stmt) ==
    \/ \E k \in 1..Len(stmt.sql_where) : IsMalformed(stmt.sql_where[k])
    \/ \E j \in 1..Len(stmt.sql_left_joins) :
          \E k \in 1..Len(stmt.sql_left_joins[j].on) :
             IsMalformed(stmt.sql_left_joins[j].on[k])

----------------------------------------------------------------------------
(* QuerySet._fetch_results: the records built from the two result sets.    *)

\* adminapi.utils.IP(value)
IP(value) == IPV(SqlNum(value))

\* The typecast of a fetched value by the type of its attribute.
FetchCast(attr_type, value) ==
    CASE attr_type = "integer" ->
            IF value.str # <<>> /\ \A i \in 1..Len(value.str) : IsDigit(value.str[i])
            THEN IntV(ParseNat(value.str)) ELSE Raise("ValueError")
      [] attr_type = "boolean" -> PyBool(value = StrV(<<"1">>))
      [] attr_type = "ip" -> IP(value)
      [] OTHER -> value

\* The attributes a record gets from its admin_server row.
ScalarAttrs(row, restrict) ==
    LET all == [hostname |-> row.hostname, intern_ip |-> IP(row.intern_ip),
                segment |-> row.segment, servertype |-> stype_ids[row.servertype_id.num]]
    IN IF restrict = {} THEN all
       ELSE [a \in DOMAIN all \cap restrict |-> all[a]]

\* The value-fetch loop storing every row with dict.__setitem__: a multi
\* attribute keeps the value of one row.
WithValues_overwriting(attrs, rows) ==
    LET names == {attr_ids[r.attrib_id].name : r \in rows}
        Typed(name) == {FetchCast(attr_names[name].type, r.value) :
                            r \in {x \in rows : attr_ids[x.attrib_id].name = name}}
    IN [a \in DOMAIN attrs \cup names |->
            IF a \notin names THEN attrs[a] ELSE CHOOSE v \in Typed(a) : TRUE]

\* The record after the rows of the value-fetch statement are applied to
\* it: a multi attribute collects its values in a set, any other
\* attribute takes the value of its row.
WithValues(attrs, rows) ==
    LET names == {attr_ids[r.attrib_id].name : r \in rows}
        Typed(name) == {FetchCast(attr_names[name].type, r.value) :
                            r \in {x \in rows : attr_ids[x.attrib_id].name = name}}
    IN [a \in DOMAIN attrs \cup names |->
            IF a \notin names THEN attrs[a]
            ELSE IF attr_names[a].multi THEN SetV(Typed(a))
            ELSE CHOOSE v \in Typed(a) : TRUE]

NoResult == [none |-> TRUE]

\* _fetch_results without the early return for a restrict set of columns of
\* admin_server.
FetchRecords_no_early_return(stmt, ids, restrict, db) ==
    LET first == [statement |-> "candidate", sql |-> stmt]
        server_data == [s \in ids |-> ScalarAttrs(db.admin_server[s], restrict)]
        left == restrict \ DOMAIN attr_exceptions
        rows == {r \in db.attrib_values :
                    /\ r.server_id \in ids
                    /\ left # {} => r.attrib_id \in {attr_names[a].pk : a \in left}}
        second == [statement |-> "values", sql |-> [server_ids |-> ids, restrict |-> left]]
    IN IF ids = {}
       THEN [sql_stmt |-> stmt, statements |-> <<first>>,
             result |-> [server_data |-> server_data]]
       ELSE IF \E a \in left : a \notin DOMAIN attr_names
       THEN [sql_stmt |-> stmt, statements |-> <<first>>, result |-> Raise("KeyError")]
       ELSE IF \E r \in rows : r.attrib_id \notin DOMAIN attr_ids
       THEN [sql_stmt |-> stmt, statements |-> <<first, second>>, result |-> Raise("KeyError")]
       ELSE IF \E r \in rows : IsRaise(FetchCast(attr_ids[r.attrib_id].type, r.value))
       THEN [sql_stmt |-> stmt, statements |-> <<first, second>>,
             result |-> Raise("ValueError")]
       ELSE [sql_stmt |-> stmt, statements |-> <<first, second>>,
             result |-> [server_data |->
                            [s \in ids |-> WithValues(server_data[s],
                                                      {r \in rows : r.server_id = s})]]]

\* _fetch_results once the candidate ids are fetched: the early returns,
\* the value-fetch statement and the records.
FetchRecords(stmt, ids, restrict, db) ==
    LET first == [statement |-> "candidate", sql |-> stmt]
        server_data == [s \in ids |-> ScalarAttrs(db.admin_server[s], restrict)]
        left == restrict \ DOMAIN attr_exceptions
        rows == {r \in db.attrib_values :
                    /\ r.server_id \in ids
                    /\ left # {} => r.attrib_id \in {attr_names[a].pk : a \in left}}
        second == [statement |-> "values", sql |-> [server_ids |-> ids, restrict |-> left]]
    IN IF ids = {} \/ (restrict # {} /\ left = {})
       THEN [sql_stmt |-> stmt, statements |-> <<first>>,
             result |-> [server_data |-> server_data]]
       ELSE IF \E a \in left : a \notin DOMAIN attr_names
       THEN [sql_stmt |-> stmt, statements |-> <<first>>, result |-> Raise("KeyError")]
       ELSE IF \E r \in rows : r.attrib_id \notin DOMAIN attr_ids
       THEN [sql_stmt |-> stmt, statements |-> <<first, second>>, result |-> Raise("KeyError")]
       ELSE IF \E r \in rows : IsRaise(FetchCast(attr_ids[r.attrib_id].type, r.value))
       THEN [sql_stmt |-> stmt, statements |-> <<first, second>>,
             result |-> Raise("ValueError")]
       ELSE [sql_stmt |-> stmt, statements |-> <<first, second>>,
             result |-> [server_data |->
                            [s \in ids |-> WithValues(server_data[s],
                                                      {r \in rows : r.server_id = s})]]]

\* _fetch_results going on to c.execute after an exception of the loop.
Execute_ignoring_raise(stmt, restrict, db) ==
    FetchRecords(stmt, SelectIds(stmt, db), restrict, db)

\* The execution of the compiled candidate-id statement and what follows.
Execute(stmt, restrict, db) ==
    IF stmt.raise # ""
    THEN [sql_stmt |-> NoResult, statements |-> <<>>, result |-> Raise(stmt.raise)]
    ELSE IF StatementMalformed(stmt)
    THEN [sql_stmt |-> stmt,
          statements |-> <<[statement |-> "candidate", sql |-> stmt]>>,
          result |-> Raise("DatabaseError")]
    ELSE FetchRecords(stmt, SelectIds(stmt, db), restrict, db)

\* What one call of _fetch_results does: the statements it executes, in
\* order, and what it returns or raises.
fetch_results(filters, restrict, db) == Execute(CompileStatement(filters), restrict, db)

\* What c.execute raising for the statements named in errors makes of
\* the outcome r of _fetch_results, were each statement executed again.
OnError_retrying(r, errors) ==
    IF Len(r.statements) >= 1 /\ "candidate" \in errors
    THEN [r EXCEPT !.statements = <<r.statements[1], r.statements[1]>> \o Tail(@)]
    ELSE IF Len(r.statements) = 2 /\ "values" \in errors
    THEN [r EXCEPT !.statements = Append(@, r.statements[2])]
    ELSE r

\* What c.execute raising for the statements named in errors makes of
\* the outcome r of _fetch_results on a database that executes them: the
\* exception leaves _fetch_results, which catches nothing, at the first
\* statement that fails.
OnError(r, errors) ==
    IF Len(r.statements) >= 1 /\ "candidate" \in errors
    THEN [r EXCEPT !.statements = <<r.statements[1]>>, !.result = Raise("DatabaseError")]
    ELSE IF Len(r.statements) = 2 /\ "values" \in errors
    THEN [r EXCEPT !.result = Raise("DatabaseError")]
    ELSE r

\* _fetch_results on a database that fails to execute the statements named
\* in errors.
fetch_results_on(filters, restrict, db, errors) ==
    CHOOSE out \in {OnError(r, errors) : r \in {fetch_results(filters, restrict, db)}} : TRUE

----------------------------------------------------------------------------
(* The inputs of the model: attributes, operands, filters, records.        *)

\* The elements of a finite set, in some order.
RECURSIVE SeqOf(_)
SeqOf(S) == IF S = {} THEN <<>> ELSE LET x == CHOOSE y \in S : TRUE IN <<x>> \o SeqOf(S \ {x})

\* The sequences of at most n elements of S.
RECURSIVE SeqsUpTo(_, _)
SeqsUpTo(S, n) ==
    IF n = 0 THEN {<<>>}
    ELSE SeqsUpTo(S, n - 1) \cup {Append(q, x) : q \in {t \in SeqsUpTo(S, n - 1) : Len(t) = n - 1},
                                                 x \in S}

QueryAttrs == {"hostname", "intern_ip", "cancelled", "num_cpu", "additional_ips"}

\* Operands of the type of the attribute, as typecast leaves them.
Operands(attr) ==
    CASE attr_names[attr].type = "string" -> {StrV(<<"a">>), StrV(<<"a", "b">>)}
      [] attr_names[attr].type = "ip" -> {IPV(<<10, 1, 2, 3>>), IPV(<<8, 8, 8, 8>>)}
      [] attr_names[attr].type = "boolean" -> {PyTrue, PyFalse}
      [] attr_names[attr].type = "integer" -> {IntV(1), IntV(2)}

NetTexts == {StrV(NetStr(Net(10, 0, 0, 0, 8))), StrV(NetStr(Net(192, 168, 0, 0, 16)))}

TypedLeaves(attr) ==
    CASE attr_names[attr].type = "string" ->
            {Startswith(StrV(<<"a">>)), Startswith(StrV(<<"b">>)),
             Regexp(StrV(<<"^", "a">>)), Regexp(StrV(<<"b">>))}
      [] attr_names[attr].type = "ip" ->
            {InsideNetwork(nets) : nets \in SeqsUpTo(NetTexts, MaxNets)}
               \cup {PrivateIP, PublicIP}
               \cup (IF attr_names[attr].multi THEN {}
                     ELSE {Startswith(StrV(<<"1", "0", ".">>)), Regexp(StrV(<<"^", "1", "0">>))})
      [] attr_names[attr].type = "integer" ->
            {Startswith(StrV(<<"1">>)), Startswith(StrV(<<"a">>)), Regexp(StrV(<<"^", "1">>))}
      [] OTHER -> {}

Leaves(attr) ==
    {ExactMatch(v) : v \in Operands(attr)}
       \cup {Comparison(c, v) : c \in Comparators, v \in Operands(attr)}
       \cup {Any(SeqOf(S)) : S \in SUBSET Operands(attr)}
       \cup {Between(a, b) : a \in Operands(attr), b \in Operands(attr)}
       \cup {Empty}
       \cup TypedLeaves(attr)

\* Leaves under at most n layers of Not and Optional.
RECURSIVE Nested(_, _)
Nested(attr, n) ==
    IF n = 0 THEN Leaves(attr)
    ELSE Nested(attr, n - 1) \cup {Not(f) : f \in Nested(attr, n - 1)}
                             \cup {Optional(f) : f \in Nested(attr, n - 1)}

Junctions(attr) ==
    LET pool == {ExactMatch(CHOOSE v \in Operands(attr) : TRUE), Empty,
                 Not(ExactMatch(CHOOSE v \in Operands(attr) : TRUE))}
    IN {And(fs) : fs \in SeqsUpTo(pool, 2)} \cup {Or(fs) : fs \in SeqsUpTo(pool, 2)}

Filters(attr) == Nested(attr, MaxNest) \cup Junctions(attr)

ServerIds == 1..MaxServers

Hostnames == <<StrV(<<"a">>), StrV(<<"a", "b">>), StrV(<<"b">>), StrV(<<"b", "a">>)>>

\* A record as create_server takes it: the four attributes of the
\* admin_server row and the attributes of attrib_values.
BaseRecord(s) ==
    [hostname |-> Hostnames[s], intern_ip |-> IPV(<<10, 1, 2, 3>>),
     segment |-> StrV(<<"a">>), servertype |-> stype_ids[1]]

\* What a record may hold for the attribute the query is about;
\* [none |-> TRUE] stands for a record without the attribute.
RecordValues(attr) ==
    CASE attr = "hostname" -> {Hostnames[i] : i \in DOMAIN Hostnames}
      [] attr = "intern_ip" -> {IPV(<<10, 1, 2, 3>>), IPV(<<8, 8, 8, 8>>), IPV(<<192, 168, 1, 1>>)}
      [] attr = "cancelled" -> {PyTrue, PyFalse}
      [] attr = "num_cpu" -> {IntV(1), IntV(2)}
      [] attr = "additional_ips" ->
            {SetV(S) : S \in SUBSET {IPV(<<10, 1, 2, 3>>), IPV(<<8, 8, 8, 8>>)}}

With(record, attr, value) ==
    [a \in DOMAIN record \cup {attr} |-> IF a = attr THEN value ELSE record[a]]

Records(attr) ==
    {rec \in [ServerIds -> RecordValues(attr) \cup
                             (IF attr \in DOMAIN attr_exceptions THEN {} ELSE {NoneV})] :
        attr = "hostname" => \A s, t \in ServerIds : s # t => rec[s] # rec[t]}

ServerObjs(attr, rec) ==
    [s \in ServerIds |->
        IF rec[s] = NoneV THEN BaseRecord(s) ELSE With(BaseRecord(s), attr, rec[s])]

servertype_id(name) == CHOOSE pk \in DOMAIN stype_ids : stype_ids[pk] = name

\* The tables after _insert_server has stored the records.
AdminServer(objs) ==
    [s \in DOMAIN objs |->
        AdminRow(s, objs[s].hostname, objs[s].intern_ip, objs[s].segment,
                 servertype_id(objs[s].servertype))]
AttribValues(objs) ==
    UNION {AttribRows(s, [a \in DOMAIN objs[s] \ DOMAIN attr_exceptions |-> objs[s][a]]) :
              s \in DOMAIN objs}

RestrictSets == {{}, {"hostname"}}

----------------------------------------------------------------------------
(* The parts of the state before the call they belong to is made.          *)

NoDatabaseError == db_error = {}
NoTypecast == cast_attr = "" /\ cast = NoResult
NoCreate == lock = 0 /\ pc = <<>> /\ call = <<>> /\ change_log = {}
NoGateways == ip_range = <<>> /\ gw = NoResult

----------------------------------------------------------------------------
(* The query: a QuerySet over one attribute, its execution, and the        *)
(* matcher on the records.                                                 *)

DB == [admin_server |-> admin_server, attrib_values |-> attrib_values]

Init ==
    /\ \E attr \in QueryAttrs :
          /\ \E f \in Filters(attr) : _filters = <<<<attr, f>>>>
          /\ \E rec \in Records(attr) : server_objs = ServerObjs(attr, rec)
    /\ admin_server = AdminServer(server_objs)
    /\ attrib_values = AttribValues(server_objs)
    /\ _restrict \in RestrictSets
    /\ sql_stmt = NoResult
    /\ statements = <<>>
    /\ _results = NoResult
    /\ match_result = NoResult
    /\ wire_obj = NoResult
    /\ parsed = NoResult
    /\ filt = NoResult
    /\ other_filt = NoResult
    /\ eq_result = NoResult
    /\ NoDatabaseError /\ NoTypecast /\ NoCreate /\ NoGateways

\* QuerySet._fetch_results
FetchResults ==
    /\ _results = NoResult
    /\ LET r == fetch_results(_filters, _restrict, DB)
       IN /\ sql_stmt' = r.sql_stmt
          /\ statements' = r.statements
          /\ _results' = r.result
    /\ UNCHANGED <<server_objs, admin_server, attrib_values, _filters, _restrict,
                   match_result, wire_obj, parsed, filt, other_filt, eq_result>>
    /\ UNCHANGED <<db_error, typecastVars, createVars, gatewayVars>>

\* filter.matches(server_obj, attr_name) for every record
Matches ==
    /\ match_result = NoResult
    /\ match_result' = [outcome |->
          [s \in DOMAIN server_objs |-> matches(_filters[1][2], server_objs[s], _filters[1][1])]]
    /\ UNCHANGED <<server_objs, admin_server, attrib_values, _filters, _restrict, sql_stmt,
                   statements, _results, wire_obj, parsed, filt, other_filt, eq_result>>
    /\ UNCHANGED <<db_error, typecastVars, createVars, gatewayVars>>

Next == FetchResults \/ Matches

Spec == Init /\ [][Next]_vars

----------------------------------------------------------------------------
(* The wire format: filter_from_obj and the from_obj of every class.  A    *)
(* wire object is a Python value as json.loads leaves it: a dict whose     *)
(* keys are strings, lists, strings, numbers, booleans and None.           *)

\* filter_classes: the class of the model (the name of its records) and
\* the key that selects it.
filter_classes ==
    [exactmatch |-> <<"e", "x", "a", "c", "t", "m", "a", "t", "c", "h">>,
     regexp |-> <<"r", "e", "g", "e", "x", "p">>,
     comparison |-> <<"c", "o", "m", "p", "a", "r", "i", "s", "o", "n">>,
     any |-> <<"a", "n", "y">>,
     and |-> <<"a", "n", "d">>,
     or |-> <<"o", "r">>,
     between |-> <<"b", "e", "t", "w", "e", "e", "n">>,
     not |-> <<"n", "o", "t">>,
     startswith |-> <<"s", "t", "a", "r", "t", "s", "w", "i", "t", "h">>,
     insidenetwork |-> <<"i", "n", "s", "i", "d", "e", "n", "e", "t", "w", "o", "r", "k">>,
     privateip |-> <<"p", "r", "i", "v", "a", "t", "e", "i", "p">>,
     publicip |-> <<"p", "u", "b", "l", "i", "c", "i", "p">>,
     optional |-> <<"o", "p", "t", "i", "o", "n", "a", "l">>,
     empty |-> <<"e", "m", "p", "t", "y">>]

\* key in obj
Has(obj, key) == key \in DOMAIN obj.dict

RECURSIVE filter_from_obj(_)

ExactMatch_from_obj(obj) ==
    IF Has(obj, "value") THEN ExactMatch(obj.dict.value) ELSE Raise("ValueError")

Regexp_from_obj(obj) ==
    IF Has(obj, "regexp") /\ obj.dict.regexp.kind = "str" THEN Regexp(obj.dict.regexp)
    ELSE Raise("ValueError")

Comparison_from_obj(obj) ==
    IF Has(obj, "comparator") /\ Has(obj, "value")
    THEN Comparison(obj.dict.comparator, obj.dict.value)
    ELSE Raise("ValueError")

Any_from_obj(obj) ==
    IF Has(obj, "values") /\ obj.dict.values.kind = "list" THEN Any(obj.dict.values.elems)
    ELSE Raise("ValueError")

\* The first exception among the outcomes of a list comprehension, or the
\* empty record when none raised.
FirstRaise(outcomes) ==
    IF \E i \in 1..Len(outcomes) : IsRaise(outcomes[i])
    THEN outcomes[CHOOSE i \in 1..Len(outcomes) :
                      IsRaise(outcomes[i]) /\ \A j \in 1..(i - 1) : ~IsRaise(outcomes[j])]
    ELSE [ok |-> TRUE]

\* _AndOr.from_obj handing the children to cls last first.
AndOr_from_obj_reversed(cls, obj) ==
    IF Has(obj, "filters") /\ obj.dict.filters.kind = "list"
    THEN IF obj.dict.filters.elems = <<>> THEN Raise("ValueError")
         ELSE LET n == Len(obj.dict.filters.elems)
                  filters == [i \in 1..n |-> filter_from_obj(obj.dict.filters.elems[n + 1 - i])]
              IN IF IsRaise(FirstRaise(filters)) THEN FirstRaise(filters)
                 ELSE AndOr(cls, filters)
    ELSE Raise("ValueError")

\* _AndOr.from_obj, for cls And ("and") or Or ("or")
AndOr_from_obj(cls, obj) ==
    IF Has(obj, "filters") /\ obj.dict.filters.kind = "list"
    THEN IF obj.dict.filters.elems = <<>> THEN Raise("ValueError")
         ELSE LET filters == [i \in 1..Len(obj.dict.filters.elems) |->
                                 filter_from_obj(obj.dict.filters.elems[i])]
              IN IF IsRaise(FirstRaise(filters)) THEN FirstRaise(filters)
                 ELSE AndOr(cls, filters)
    ELSE Raise("ValueError")

Between_from_obj(obj) ==
    IF Has(obj, "a") /\ Has(obj, "b") THEN Between(obj.dict.a, obj.dict.b)
    ELSE Raise("ValueError")

\* Not.from_obj handing the wire object of the child to cls unparsed.
Not_from_obj_unparsed(obj) ==
    IF Has(obj, "filter") THEN Not(obj.dict.filter) ELSE Raise("ValueError")

\* cls(filter_from_obj(obj[u'filter'])): an exception of the inner call
\* leaves before cls is called.
Not_from_obj(obj) ==
    IF Has(obj, "filter")
    THEN LET filter == filter_from_obj(obj.dict.filter)
         IN IF IsRaise(filter) THEN filter ELSE Not(filter)
    ELSE Raise("ValueError")

Startswith_from_obj(obj) ==
    IF Has(obj, "value") /\ obj.dict.value.kind = "str" THEN Startswith(obj.dict.value)
    ELSE Raise("ValueError")

InsideNetwork_from_obj(obj) ==
    IF Has(obj, "networks") /\ obj.dict.networks.kind = "list"
    THEN InsideNetwork(obj.dict.networks.elems)
    ELSE Raise("ValueError")

\* NoArgFilter.from_obj: cls()
NoArgFilter_from_obj(cls, obj) == IF cls = "privateip" THEN PrivateIP ELSE PublicIP

Optional_from_obj(obj) ==
    IF Has(obj, "filter")
    THEN LET filter == filter_from_obj(obj.dict.filter)
         IN IF IsRaise(filter) THEN filter ELSE Optional(filter)
    ELSE Raise("ValueError")

Empty_from_obj(obj) == Empty

\* filter_classes[name].from_obj(obj)
from_obj(cls, obj) ==
    CASE cls = "exactmatch" -> ExactMatch_from_obj(obj)
      [] cls = "regexp" -> Regexp_from_obj(obj)
      [] cls = "comparison" -> Comparison_from_obj(obj)
      [] cls = "any" -> Any_from_obj(obj)
      [] cls \in {"and", "or"} -> AndOr_from_obj(cls, obj)
      [] cls = "between" -> Between_from_obj(obj)
      [] cls = "not" -> Not_from_obj(obj)
      [] cls = "startswith" -> Startswith_from_obj(obj)
      [] cls = "insidenetwork" -> InsideNetwork_from_obj(obj)
      [] cls \in {"privateip", "publicip"} -> NoArgFilter_from_obj(cls, obj)
      [] cls = "optional" -> Optional_from_obj(obj)
      [] cls = "empty" -> Empty_from_obj(obj)

\* except KeyError: raise ValueError
KeyErrorAsValueError(outcome) ==
    IF outcome = Raise("KeyError") THEN Raise("ValueError") ELSE outcome

filter_from_obj(obj) ==
    IF ~(obj.kind = "dict" /\ Has(obj, "name") /\ obj.dict.name.kind = "str")
    THEN Raise("ValueError")
    ELSE KeyErrorAsValueError(
            IF \E cls \in DOMAIN filter_classes : filter_classes[cls] = obj.dict.name.str
            THEN from_obj(CHOOSE cls \in DOMAIN filter_classes :
                             filter_classes[cls] = obj.dict.name.str, obj)
            ELSE Raise("KeyError"))

\* The serializer: the wire object of a filter, by the table of the wire
\* object model.
Named(name, keys) ==
    DictV([k \in DOMAIN keys \cup {"name"} |->
              IF k = "name" THEN StrV(filter_classes[name]) ELSE keys[k]])

RECURSIVE serialize(_)
serialize(f) ==
    CASE f.name = "exactmatch" -> Named(f.name, [value |-> f.value])
      [] f.name = "regexp" -> Named(f.name, [regexp |-> f.regexp])
      [] f.name = "comparison" ->
            Named(f.name, [comparator |-> f.comparator, value |-> f.value])
      [] f.name = "any" -> Named(f.name, [values |-> ListV(SeqOf(f.values))])
      [] f.name \in {"and", "or"} ->
            Named(f.name, [filters |-> ListV([i \in 1..Len(f.filters) |->
                                                serialize(f.filters[i])])])
      [] f.name = "between" -> Named(f.name, [a |-> f.a, b |-> f.b])
      [] f.name \in {"not", "optional"} -> Named(f.name, [filter |-> serialize(f.filter)])
      [] f.name = "startswith" -> Named(f.name, [value |-> f.value])
      [] f.name = "insidenetwork" ->
            Named(f.name, [networks |-> ListV([i \in 1..Len(f.networks) |->
                                                 StrV(NetStr(f.networks[i]))])])
      [] f.name \in {"privateip", "publicip", "empty"} -> Named(f.name, NoDict)

----------------------------------------------------------------------------
(* __eq__ and __hash__ of the filters.  hash() of a string and of a        *)
(* network are kept to 16 bits.                                            *)

\* a ^ b on naturals
RECURSIVE Xor(_, _)
Xor(a, b) ==
    IF a = 0 THEN b
    ELSE IF b = 0 THEN a
    ELSE 2 * Xor(a \div 2, b \div 2) + (((a % 2) + (b % 2)) % 2)

\* hash(s) of a string
RECURSIVE StrHash(_)
StrHash(s) ==
    IF s = <<>> THEN 0
    ELSE (StrHash(SubSeq(s, 1, Len(s) - 1)) * 31 + Ord(s[Len(s)])) % 65536

\* hash(v) of a string or a number; hash(True) is 1
Hash(v) == IF v.kind = "str" THEN StrHash(v.str) ELSE v.num

\* The netmask of a prefix length, as octets.
netmask(prefixlen) == [i \in 1..4 |-> 256 - Pow2(8 - PrefixBits(prefixlen, i))]

\* hash(network): hash(int(network_address) ^ int(netmask))
NetHash(net) ==
    LET x == [i \in 1..4 |-> Xor(network_address(net)[i], netmask(net.prefixlen)[i])]
    IN Xor(x[1] * 256 + x[2], x[3] * 256 + x[4])

\* The string each __hash__ starts from: the class name, or self.name.
hash_names ==
    [exactmatch |-> <<"E", "x", "a", "c", "t", "M", "a", "t", "c", "h">>,
     regexp |-> <<"R", "e", "g", "e", "x", "p">>,
     comparison |-> <<"C", "o", "m", "p", "a", "r", "i", "s", "o", "n">>,
     any |-> <<"A", "n", "y">>,
     and |-> <<"a", "n", "d">>,
     or |-> <<"o", "r">>,
     between |-> <<"B", "e", "t", "w", "e", "e", "n">>,
     not |-> <<"N", "o", "t">>,
     startswith |-> <<"S", "t", "a", "r", "t", "s", "w", "i", "t", "h">>,
     insidenetwork |-> <<"I", "n", "s", "i", "d", "e", "N", "e", "t", "w", "o", "r", "k">>,
     privateip |-> <<"P", "r", "i", "v", "a", "t", "e", "I", "P">>,
     publicip |-> <<"P", "u", "b", "l", "i", "c", "I", "P">>,
     optional |-> <<"O", "p", "t", "i", "o", "n", "a", "l">>,
     empty |-> <<"E", "m", "p", "t", "y">>]

\* reduce(xor, hashes, start)
RECURSIVE XorAll(_, _)
XorAll(start, hashes) ==
    IF hashes = <<>> THEN start ELSE XorAll(Xor(start, Head(hashes)), Tail(hashes))

RECURSIVE Filter_hash(_)
Filter_hash(self) ==
    LET h == StrHash(hash_names[self.name])
    IN CASE self.name \in {"exactmatch", "startswith"} -> Xor(h, Hash(self.value))
         [] self.name = "regexp" -> Xor(h, Hash(self.regexp))
         [] self.name = "comparison" -> Xor(Xor(h, Hash(self.comparator)), Hash(self.value))
         [] self.name = "any" ->
               XorAll(h, [i \in 1..Cardinality(self.values) |-> Hash(SeqOf(self.values)[i])])
         [] self.name \in {"and", "or"} ->
               XorAll(h, [i \in 1..Len(self.filters) |-> Filter_hash(self.filters[i])])
         [] self.name = "between" -> Xor(Xor(h, Hash(self.a)), Hash(self.b))
         [] self.name \in {"not", "optional"} -> Xor(h, Filter_hash(self.filter))
         [] self.name = "insidenetwork" ->
               XorAll(h, [i \in 1..Len(self.networks) |-> NetHash(self.networks[i])])
         [] self.name \in {"privateip", "publicip", "empty"} -> h

RECURSIVE Filter_eq(_, _)

\* list == list: the lengths agree and no pair of elements compares unequal
\* (an outcome that is not true counts as unequal).
ListEq(xs, ys) ==
    Len(xs) = Len(ys) /\ \A i \in 1..Len(xs) : Filter_eq(xs[i], ys[i]) = PyTrue

\* set == set
SetEq(xs, ys) ==
    /\ \A x \in xs : \E y \in ys : PyEq(x, y)
    /\ \A y \in ys : \E x \in xs : PyEq(x, y)

ExactMatch_eq(self, other) ==
    IF other.name = "exactmatch" THEN PyBool(PyEq(self.value, other.value)) ELSE PyFalse

Regexp_eq(self, other) ==
    IF other.name = "regexp" THEN PyBool(PyEq(self.regexp, other.regexp)) ELSE PyFalse

Comparison_eq(self, other) ==
    IF other.name = "comparison"
    THEN PyBool(PyEq(self.comparator, other.comparator) /\ PyEq(self.value, other.value))
    ELSE PyFalse

Any_eq(self, other) ==
    IF other.name = "any" THEN PyBool(SetEq(self.values, other.values)) ELSE PyFalse

\* isinstance(other, self.__class__)
AndOr_eq(self, other) ==
    IF other.name = self.name THEN PyBool(ListEq(self.filters, other.filters)) ELSE PyFalse

Between_eq(self, other) ==
    IF other.name = "between"
    THEN PyBool(PyEq(self.a, other.a) /\ PyEq(self.b, other.b))
    ELSE PyFalse

Not_eq(self, other) ==
    IF other.name = "not" THEN Filter_eq(self.filter, other.filter) ELSE PyFalse

\* There is no return after the if: the method returns None.
Startswith_eq(self, other) ==
    IF other.name = "startswith" THEN PyBool(PyEq(self.value, other.value)) ELSE NoneV

Min(a, b) == IF a < b THEN a ELSE b

\* all(n1 == n2 for n1, n2 in zip(self.networks, other.networks)): zip
\* stops at the end of the shorter list.
InsideNetwork_eq(self, other) ==
    IF other.name = "insidenetwork"
    THEN PyBool(\A i \in 1..Min(Len(self.networks), Len(other.networks)) :
                   self.networks[i] = other.networks[i])
    ELSE PyFalse

\* NoArgFilter.__eq__: isinstance(other, self.__class__)
NoArgFilter_eq(self, other) == PyBool(other.name = self.name)

Optional_eq(self, other) ==
    IF other.name = "optional" THEN Filter_eq(self.filter, other.filter) ELSE PyFalse

Empty_eq(self, other) == PyBool(other.name = "empty")

\* self == other
Filter_eq(self, other) ==
    CASE self.name = "exactmatch" -> ExactMatch_eq(self, other)
      [] self.name = "regexp" -> Regexp_eq(self, other)
      [] self.name = "comparison" -> Comparison_eq(self, other)
      [] self.name = "any" -> Any_eq(self, other)
      [] self.name \in {"and", "or"} -> AndOr_eq(self, other)
      [] self.name = "between" -> Between_eq(self, other)
      [] self.name = "not" -> Not_eq(self, other)
      [] self.name = "startswith" -> Startswith_eq(self, other)
      [] self.name = "insidenetwork" -> InsideNetwork_eq(self, other)
      [] self.name \in {"privateip", "publicip"} -> NoArgFilter_eq(self, other)
      [] self.name = "optional" -> Optional_eq(self, other)
      [] self.name = "empty" -> Empty_eq(self, other)

----------------------------------------------------------------------------
(* The wire: a filter is serialized and handed to filter_from_obj, or a    *)
(* malformed object is.                                                    *)

WireOperands == {StrV(<<"a">>), IntV(1), PyFalse}

WireLeaves ==
    {ExactMatch(v) : v \in WireOperands}
       \cup {Regexp(StrV(<<"^", "a">>)), Regexp(StrV(<<"b">>))}
       \cup {Comparison(c, v) : c \in Comparators, v \in WireOperands}
       \cup {Any(SeqOf(S)) : S \in SUBSET WireOperands}
       \cup {Between(a, b) : a \in WireOperands, b \in WireOperands}
       \cup {Startswith(StrV(<<"a">>)), Startswith(StrV(<<"1">>))}
       \cup {InsideNetwork(nets) : nets \in SeqsUpTo(NetTexts, MaxNets)}
       \cup {PrivateIP, PublicIP, Empty}

\* Leaves under at most n layers of Not and Optional.
RECURSIVE WireNested(_)
WireNested(n) ==
    IF n = 0 THEN WireLeaves
    ELSE WireNested(n - 1) \cup {Not(f) : f \in WireNested(n - 1)}
                           \cup {Optional(f) : f \in WireNested(n - 1)}

WireJunctions ==
    LET pool == {ExactMatch(StrV(<<"a">>)), Startswith(StrV(<<"a">>)), Not(Empty),
                 And(<<ExactMatch(IntV(1))>>)}
        children == SeqsUpTo(pool, 2) \ {<<>>}
    IN {And(fs) : fs \in children} \cup {Or(fs) : fs \in children}

WireFilters == WireNested(MaxNest) \cup WireJunctions

\* Objects that are no mapping, or lack a string name, or name no class.
Unnamed ==
    {IntV(5), NoneV, ListV(<<>>), StrV(filter_classes["empty"]),
     DictV([value |-> IntV(1)]), DictV([name |-> IntV(5)]), DictV([name |-> NoneV]),
     DictV([name |-> StrV(<<"n", "o">>)])}

\* Objects of a class that lack a key of the class.
MissingKey ==
    {Named(name, NoDict) : name \in {"exactmatch", "regexp", "comparison", "any", "and", "or",
                                      "between", "not", "startswith", "insidenetwork",
                                      "optional"}}
       \cup {Named("comparison", [value |-> IntV(1)]),
             Named("comparison", [comparator |-> StrV(<<"<">>)]),
             Named("between", [a |-> IntV(1)]), Named("between", [b |-> IntV(1)])}

\* Objects of a class with a key of the wrong type.
WrongType ==
    {Named("regexp", [regexp |-> IntV(5)]),
     Named("comparison", [comparator |-> IntV(5), value |-> IntV(1)]),
     Named("any", [values |-> StrV(<<"a">>)]),
     Named("and", [filters |-> StrV(<<"a">>)]),
     Named("or", [filters |-> Named("empty", NoDict)]),
     Named("not", [filter |-> IntV(5)]),
     Named("optional", [filter |-> StrV(<<"a">>)]),
     Named("startswith", [value |-> IntV(5)]),
     Named("insidenetwork", [networks |-> StrV(NetStr(Net(10, 0, 0, 0, 8)))])}

\* and / or without children.
EmptyJunction == {Named("and", [filters |-> ListV(<<>>)]), Named("or", [filters |-> ListV(<<>>)])}

Flat == Unnamed \cup MissingKey \cup WrongType \cup EmptyJunction

\* A malformed object, at the top or inside a well-formed one.
Malformed ==
    Flat \cup {Named("not", [filter |-> m]) : m \in Flat}
         \cup {Named("optional", [filter |-> m]) : m \in Flat}
         \cup {Named("and", [filters |-> ListV(<<Named("empty", NoDict), m>>)]) : m \in Flat}
         \cup {Named("or", [filters |-> ListV(<<m>>)]) : m \in Flat}

\* comparison objects whose comparator is none of <, >, <=, >=.
BadComparators ==
    {StrV(<<"=">>), StrV(<<"=", "=">>), StrV(<<"!", "=">>), StrV(<<>>), StrV(<<"<", ">">>),
     StrV(<<"l", "t">>), IntV(5), NoneV, ListV(<<StrV(<<"<">>)>>)}
BadOperator ==
    LET flat == {Named("comparison", [comparator |-> c, value |-> v]) :
                    c \in BadComparators, v \in WireOperands}
    IN flat \cup {Named("not", [filter |-> m]) : m \in flat}

InitWire ==
    /\ \/ filt \in WireFilters /\ wire_obj = serialize(filt)
       \/ filt = NoResult /\ wire_obj \in Malformed
       \/ filt = NoResult /\ wire_obj \in BadOperator
    /\ parsed = NoResult
    /\ server_objs = <<>>
    /\ admin_server = <<>>
    /\ attrib_values = {}
    /\ _filters = <<>>
    /\ _restrict = {}
    /\ sql_stmt = NoResult
    /\ statements = <<>>
    /\ _results = NoResult
    /\ match_result = NoResult
    /\ other_filt = NoResult
    /\ eq_result = NoResult
    /\ NoDatabaseError /\ NoTypecast /\ NoCreate /\ NoGateways

\* filter_from_obj(obj)
FilterFromObj ==
    /\ wire_obj # NoResult
    /\ parsed = NoResult
    /\ parsed' = filter_from_obj(wire_obj)
    /\ UNCHANGED <<server_objs, admin_server, attrib_values, _filters, _restrict, sql_stmt,
                   statements, _results, match_result, wire_obj, filt, other_filt, eq_result>>
    /\ UNCHANGED <<db_error, typecastVars, createVars, gatewayVars>>

NextWire == FilterFromObj

SpecWire == InitWire /\ [][NextWire]_vars

----------------------------------------------------------------------------
(* Equality: two filters are compared and hashed.                          *)

EqOperands == {StrV(<<"a">>), IntV(1), IntV(2)}

EqLeaves ==
    {ExactMatch(v) : v \in EqOperands}
       \cup {Regexp(StrV(<<"^", "a">>)), Regexp(StrV(<<"b">>))}
       \cup {Comparison(c, v) : c \in {StrV(<<"<">>), StrV(<<">", "=">>)}, v \in {IntV(1), IntV(2)}}
       \cup {Any(SeqOf(S)) : S \in SUBSET {StrV(<<"a">>), IntV(1)}}
       \cup {Between(IntV(1), b) : b \in {IntV(1), IntV(2)}}
       \cup {Startswith(StrV(<<"a">>)), Startswith(StrV(<<"b">>))}
       \cup {InsideNetwork(nets) : nets \in SeqsUpTo(NetTexts, MaxNets)}
       \cup {PrivateIP, PublicIP, Empty}

EqJunctions ==
    LET pool == {ExactMatch(IntV(1)), Startswith(StrV(<<"a">>))}
    IN {And(fs) : fs \in SeqsUpTo(pool, 2)} \cup {Or(fs) : fs \in SeqsUpTo(pool, 2)}

EqFilters ==
    EqLeaves \cup {Not(f) : f \in EqLeaves} \cup {Optional(f) : f \in EqLeaves} \cup EqJunctions

InitEq ==
    /\ filt \in EqFilters
    /\ other_filt \in EqFilters
    /\ eq_result = NoResult
    /\ server_objs = <<>>
    /\ admin_server = <<>>
    /\ attrib_values = {}
    /\ _filters = <<>>
    /\ _restrict = {}
    /\ sql_stmt = NoResult
    /\ statements = <<>>
    /\ _results = NoResult
    /\ match_result = NoResult
    /\ wire_obj = NoResult
    /\ parsed = NoResult
    /\ NoDatabaseError /\ NoTypecast /\ NoCreate /\ NoGateways

\* filt == other, hash(filt), hash(other)
Eq ==
    /\ filt # NoResult
    /\ other_filt # NoResult
    /\ eq_result = NoResult
    /\ eq_result' = [eq |-> Filter_eq(filt, other_filt),
                     hashes |-> <<Filter_hash(filt), Filter_hash(other_filt)>>]
    /\ UNCHANGED <<server_objs, admin_server, attrib_values, _filters, _restrict, sql_stmt,
                   statements, _results, match_result, wire_obj, parsed, filt, other_filt>>
    /\ UNCHANGED <<db_error, typecastVars, createVars, gatewayVars>>

NextEq == Eq

SpecEq == InitEq /\ [][NextEq]_vars

----------------------------------------------------------------------------
(* Properties of the query: Spec.                                          *)

Attr == _filters[1][1]
Filter == _filters[1][2]
Fetched == _results # NoResult
Matched == match_result # NoResult
Compiled_ == sql_stmt # NoResult

\* The ids _fetch_results returned; none when it raised.
Selected == IF "server_data" \in DOMAIN _results THEN DOMAIN _results.server_data ELSE {}

\* What filter.matches handed back for record s.
Outcome(s) == match_result.outcome[s]

\* The ids of the records the matcher accepts.
MatchedIds == {s \in DOMAIN server_objs : Outcome(s) = PyTrue}

\* Whether attrib_values holds a row of the queried attribute for server s.
HasRow(s) ==
    \E row \in attrib_values : row.server_id = s /\ row.attrib_id = attr_names[Attr].pk

\* The field the fragment of the query was compiled for.
TheField ==
    IF Attr \in DOMAIN attr_exceptions THEN Field("adms", 0, attr_exceptions[Attr])
    ELSE Field("av", 0, "value")

\* The fragment the filter compiled to, where the statement holds it.
Fragment ==
    IF Attr \in DOMAIN attr_exceptions
    THEN IF Filter.name = "optional" THEN sql_stmt.sql_where[1].args[2]
         ELSE sql_stmt.sql_where[1]
    ELSE IF sql_stmt.sql_left_joins # <<>> THEN sql_stmt.sql_left_joins[1].on[3]
         ELSE sql_stmt.sql_where[3]

\* Optional, Empty, or a Not wrapping one of these.
OptionalClass(f) ==
    \/ f.name \in {"optional", "empty"}
    \/ f.name = "not" /\ f.filter.name \in {"optional", "empty"}

\* x op v on typed values.
CompareBy(op, x, v) ==
    CASE op = <<"<">> -> PyLt(x, v)
      [] op = <<">">> -> PyLt(v, x)
      [] op = <<"<", "=">> -> PyLe(x, v)
      [] op = <<">", "=">> -> PyLe(v, x)

\* A filter with the children and networks its class asks for: And and Or
\* of at least one filter, InsideNetwork of at least one network.
RECURSIVE WellFormed(_)
WellFormed(f) ==
    CASE f.name \in {"and", "or"} ->
            f.filters # <<>> /\ \A i \in 1..Len(f.filters) : WellFormed(f.filters[i])
      [] f.name \in {"not", "optional"} -> WellFormed(f.filter)
      [] f.name = "insidenetwork" -> f.networks # <<>>
      [] OTHER -> TRUE

\* C1: the ids of the records for which filter.matches is true are the ids
\* the compiled statement selects (an exception on either side selects or
\* matches nothing).
C1_MatchSqlEquivalence == (Fetched /\ Matched /\ WellFormed(Filter)) => MatchedIds = Selected

\* C2: Comparison(op, v).matches returns x op v for a record whose
\* attribute holds the single value x, for each of <, >, <= and >=.
C2_ComparisonMatches ==
    (Matched /\ Filter.name = "comparison") =>
        \A s \in DOMAIN server_objs :
            (Attr \in DOMAIN server_objs[s] /\ server_objs[s][Attr].kind # "set") =>
                Outcome(s) = PyBool(CompareBy(Filter.comparator.str, server_objs[s][Attr],
                                              Filter.value))

\* C4: ExactMatch(False) on a boolean attribute compiles to
\* (field = '0' OR field IS NULL), and the matcher returns True for a
\* record that lacks the attribute.
C4_ExactMatchFalseAbsent ==
    (Fetched /\ Matched /\ attr_names[Attr].type = "boolean" /\ Filter = ExactMatch(PyFalse)) =>
        /\ Compiled_
        /\ Fragment = SqlJunction("OR", <<SqlEq(TheField, StrV(<<"0">>)), SqlIsNull(TheField)>>)
        /\ \A s \in DOMAIN server_objs : Attr \notin DOMAIN server_objs[s] => Outcome(s) = PyTrue

C6_JoinKind ==
    (Fetched /\ Compiled_) =>
        IF Attr \in DOMAIN attr_exceptions
        THEN sql_stmt.sql_left_joins = <<>> /\ sql_stmt.sql_from = <<>>
        ELSE LET on == <<JoinServer(0), JoinAttrib(0, attr_names[Attr].pk),
                         as_sql_expr(Filter, 0, attr_names[Attr], TheField).sql>>
             IN IF OptionalClass(Filter)
                THEN /\ sql_stmt.sql_left_joins = <<[idx |-> 0, on |-> on]>>
                     /\ sql_stmt.sql_from = <<>>
                     /\ sql_stmt.sql_where = <<>>
                ELSE /\ sql_stmt.sql_left_joins = <<>>
                     /\ sql_stmt.sql_from = <<0>>
                     /\ sql_stmt.sql_where = on

----------------------------------------------------------------------------
(* Properties of the wire: SpecWire.                                       *)

\* The keys of the wire table for each name.
WireKeys ==
    [exactmatch |-> {"value"}, regexp |-> {"regexp"}, comparison |-> {"comparator", "value"},
     any |-> {"values"}, and |-> {"filters"}, or |-> {"filters"}, between |-> {"a", "b"},
     not |-> {"filter"}, startswith |-> {"value"}, insidenetwork |-> {"networks"},
     privateip |-> {}, publicip |-> {}, optional |-> {"filter"}, empty |-> {}]

\* Whether an object holds name and exactly the keys of its variant, and
\* its children do.
RECURSIVE Conforms(_)
Conforms(o) ==
    /\ o.kind = "dict"
    /\ "name" \in DOMAIN o.dict
    /\ \E name \in DOMAIN WireKeys :
          /\ o.dict.name = StrV(filter_classes[name])
          /\ DOMAIN o.dict = WireKeys[name] \cup {"name"}
          /\ name \in {"not", "optional"} => Conforms(o.dict.filter)
          /\ name \in {"and", "or"} =>
                /\ o.dict.filters.kind = "list"
                /\ \A i \in 1..Len(o.dict.filters.elems) : Conforms(o.dict.filters.elems[i])

C9_MalformedRaisesValueError ==
    (wire_obj \in Malformed /\ parsed # NoResult) => parsed = Raise("ValueError")

----------------------------------------------------------------------------
(* Properties of equality: SpecEq.                                         *)

\* C10: == returns True or False, True exactly for two filters of one
\* variant with equal operands and children, and filters that compare
\* equal have equal hashes.
C10_EqualityStructural ==
    eq_result # NoResult =>
        /\ eq_result.eq \in {PyTrue, PyFalse}
        /\ (eq_result.eq = PyTrue) = (filt = other_filt)
        /\ eq_result.eq = PyTrue => eq_result.hashes[1] = eq_result.hashes[2]

----------------------------------------------------------------------------
(* Properties of the address filters: Spec.                                *)

\* Whether the address ip lies between the network address and the
\* broadcast address of net, both included.
InRange(ip, net) ==
    /\ ~SeqLess(ip, network_address(net))
    /\ ~SeqLess(broadcast_address(net), ip)

\* Whether ip lies in one of the networks.
InAnyNetwork(ip, networks) == \E i \in 1..Len(networks) : InRange(ip, networks[i])

\* C11: on a single-valued address attribute InsideNetwork(n1, .., nk)
\* matches a record exactly when its address lies between the network
\* address and the broadcast address of one of the networks, and the
\* compiled statement selects exactly those records.
C11_InsideNetworkMatches ==
    (Fetched /\ Matched /\ Attr = "intern_ip" /\ Filter.name = "insidenetwork"
        /\ Filter.networks # <<>>) =>
        \A s \in DOMAIN server_objs :
            LET inside == InAnyNetwork(server_objs[s][Attr].ip, Filter.networks)
            IN /\ (s \in Selected) = inside
               /\ Outcome(s) = PyBool(inside)

\* What the spec says PrivateIP and PublicIP stand for.
SugarOf(f) == IF f = PrivateIP THEN InsideNetwork(blocks) ELSE Not(PrivateIP)

\* C12: on an address attribute PrivateIP compiles and matches like
\* InsideNetwork over the three private blocks and PublicIP like
\* Not(PrivateIP), and of PrivateIP and PublicIP exactly one matches a
\* record with an address.
C12_PrivatePublicIP ==
    (Fetched /\ Matched /\ attr_names[Attr].type = "ip" /\ Filter \in {PrivateIP, PublicIP}) =>
        /\ Compiled_
        /\ Fragment = as_sql_expr(SugarOf(Filter), 0, attr_names[Attr], TheField).sql
        /\ \A s \in DOMAIN server_objs :
              /\ Outcome(s) = matches(SugarOf(Filter), server_objs[s], Attr)
              /\ (Attr \in DOMAIN server_objs[s] /\ server_objs[s][Attr].kind = "ip") =>
                    (matches(PrivateIP, server_objs[s], Attr) = PyTrue)
                        # (matches(PublicIP, server_objs[s], Attr) = PyTrue)

----------------------------------------------------------------------------
(* Properties of Any, Between and Startswith: Spec.                        *)

\* C13: Any() of no values compiles to the always-false fragment, selects
\* no record, and its matcher returns False for every record, a record
\* without the attribute included.
C13_EmptyAnyMatchesNothing ==
    (Fetched /\ Matched /\ Filter = Any(<<>>)) =>
        /\ Compiled_
        /\ Fragment = SqlFalse
        /\ Selected = {}
        /\ \A s \in DOMAIN server_objs : Outcome(s) = PyFalse

C15_StartswithIntegerNeverRaises ==
    (Fetched /\ attr_names[Attr].type = "integer" /\ Filter.name = "startswith") =>
        /\ Compiled_
        /\ Fragment = IF IsNumeral(Filter.value.str)
                      THEN SqlLike("", TheField, Filter.value.str)
                      ELSE SqlFalse

----------------------------------------------------------------------------
(* Properties of the constructors behind the wire: SpecWire.               *)

\* The comparison object at the top of the wire object or under its not.
ComparisonObj ==
    IF wire_obj.kind = "dict" /\ Has(wire_obj, "name") /\ Has(wire_obj, "filter")
          /\ wire_obj.dict.name = StrV(filter_classes["not"])
    THEN wire_obj.dict.filter
    ELSE wire_obj

\* Whether the wire object is, or negates, a comparison object with a
\* comparator outside <, >, <=, >=.
HasBadOperator ==
    /\ ComparisonObj.kind = "dict"
    /\ Has(ComparisonObj, "name")
    /\ ComparisonObj.dict.name = StrV(filter_classes["comparison"])
    /\ Has(ComparisonObj, "comparator")
    /\ Has(ComparisonObj, "value")
    /\ ComparisonObj.dict.comparator \notin Comparators

\* C16: a Comparison with a comparator outside <, >, <=, >= is not built:
\* the constructor, called directly or by filter_from_obj, raises
\* ValueError, the invalid-operator error.
C16_InvalidOperator ==
    (parsed # NoResult /\ HasBadOperator) =>
        /\ parsed = Raise("ValueError")
        /\ Comparison(ComparisonObj.dict.comparator, ComparisonObj.dict.value)
              = Raise("ValueError")

\* C17: filter_from_obj of an and / or object returns the And / Or whose
\* children are the filters of the elements of filters, as many and in
\* the same order.
C17_AndOrFromObj ==
    (parsed # NoResult /\ filt # NoResult /\ filt.name \in {"and", "or"}) =>
        LET elems == wire_obj.dict.filters.elems
        IN /\ ~IsRaise(parsed)
           /\ parsed.name = filt.name
           /\ Len(parsed.filters) = Len(elems)
           /\ \A i \in 1..Len(elems) :
                 /\ parsed.filters[i] = filter_from_obj(elems[i])
                 /\ parsed.filters[i] = filt.filters[i]

C17_Witness ==
    /\ wire_obj = Named("and", [filters |->
                      ListV(<<Named("startswith", [value |-> StrV(<<"a">>)]),
                              Named("exactmatch", [value |-> StrV(<<"a">>)])>>)])
    /\ parsed = And(<<Startswith(StrV(<<"a">>)), ExactMatch(StrV(<<"a">>))>>)

----------------------------------------------------------------------------
(* A query on an attribute the schema directory does not hold.             *)

UnknownAttrs == {"rack", "os"}

UnknownFilters ==
    LET leaves == {ExactMatch(StrV(<<"a">>)), ExactMatch(IntV(1)),
                   Comparison(StrV(<<"<">>), IntV(1)), Any(<<>>), Any(<<StrV(<<"a">>)>>),
                   Between(IntV(1), IntV(2)), Startswith(StrV(<<"a">>)),
                   Regexp(StrV(<<"^", "a">>)), PrivateIP, PublicIP, Empty}
    IN leaves \cup {Not(f) : f \in leaves} \cup {Optional(f) : f \in leaves}
              \cup {And(<<ExactMatch(IntV(1)), Empty>>), Or(<<Empty>>)}

InitUnknown ==
    /\ \E attr \in UnknownAttrs : \E f \in UnknownFilters : _filters = <<<<attr, f>>>>
    /\ \E rec \in Records("hostname") : server_objs = ServerObjs("hostname", rec)
    /\ admin_server = AdminServer(server_objs)
    /\ attrib_values = AttribValues(server_objs)
    /\ _restrict \in RestrictSets
    /\ sql_stmt = NoResult
    /\ statements = <<>>
    /\ _results = NoResult
    /\ match_result = NoResult
    /\ wire_obj = NoResult
    /\ parsed = NoResult
    /\ filt = NoResult
    /\ other_filt = NoResult
    /\ eq_result = NoResult
    /\ NoDatabaseError /\ NoTypecast /\ NoCreate /\ NoGateways

NextUnknown == FetchResults

SpecUnknown == InitUnknown /\ [][NextUnknown]_vars

\* C18: a query with a filter on an attribute that lookups.attr_names does
\* not hold fails with KeyError, the error of the unknown attribute,
\* before any statement is executed, and leaves the tables as they were.
C18_UnknownAttribute ==
    (Fetched /\ Attr \notin DOMAIN attr_names) =>
        /\ _results = Raise("KeyError")
        /\ statements = <<>>
        /\ sql_stmt = NoResult
        /\ admin_server = AdminServer(server_objs)
        /\ attrib_values = AttribValues(server_objs)

C18_Witness ==
    /\ Attr = "rack"
    /\ Filter = Optional(ExactMatch(StrV(<<"a">>)))
    /\ _results = Raise("KeyError")
    /\ statements = <<>>

----------------------------------------------------------------------------
(* Properties of the statements of a query: Spec.                          *)

----------------------------------------------------------------------------
(* A query of several filters: the aliases of one compilation.             *)

AliasAttrs == {"hostname", "num_cpu", "additional_ips", "all_ips"}

AliasFilters(attr) ==
    LET x == CHOOSE v \in Operands(attr) : TRUE
    IN IF attr_names[attr].multi
       THEN {ExactMatch(x), Not(ExactMatch(x)), Not(Not(ExactMatch(x))), Not(Empty),
             And(<<Not(ExactMatch(x)), Not(Empty)>>),
             Not(Or(<<Not(Empty), Not(Not(ExactMatch(x)))>>)),
             Optional(Not(ExactMatch(x)))}
       ELSE {ExactMatch(x), Not(ExactMatch(x)), Optional(ExactMatch(x)), Empty}

\* The queries of one to three filters on different attributes, in each
\* order the dict of filters may be walked in.
AliasQueries ==
    {q \in UNION {[1..n -> UNION {{<<a, f>> : f \in AliasFilters(a)} : a \in AliasAttrs}] :
                     n \in 1..3} :
        \A i, j \in DOMAIN q : i # j => q[i][1] # q[j][1]}

InitAliases ==
    /\ _filters \in AliasQueries
    /\ server_objs = <<With(BaseRecord(1), "additional_ips", SetV({IPV(<<10, 1, 2, 3>>)}))>>
    /\ admin_server = AdminServer(server_objs)
    /\ attrib_values = AttribValues(server_objs)
    /\ _restrict = {}
    /\ sql_stmt = NoResult
    /\ statements = <<>>
    /\ _results = NoResult
    /\ match_result = NoResult
    /\ wire_obj = NoResult
    /\ parsed = NoResult
    /\ filt = NoResult
    /\ other_filt = NoResult
    /\ eq_result = NoResult
    /\ NoDatabaseError /\ NoTypecast /\ NoCreate /\ NoGateways

NextAliases == FetchResults

SpecAliases == InitAliases /\ [][NextAliases]_vars

\* The aliases av<i> of the joins of the statement, in order.
JoinAliases ==
    sql_stmt.sql_from \o [j \in 1..Len(sql_stmt.sql_left_joins) |-> sql_stmt.sql_left_joins[j].idx]

\* The fragments of the statement: WHERE, then the ON of each LEFT JOIN.
RECURSIVE OnFragments(_)
OnFragments(joins) == IF joins = <<>> THEN <<>> ELSE Head(joins).on \o OnFragments(Tail(joins))
Fragments == sql_stmt.sql_where \o OnFragments(sql_stmt.sql_left_joins)

\* The aliases nav<uid> of the subqueries of a sequence of fragments, in
\* order, each as often as a subquery declares it.
RECURSIVE SubqueryAliases(_)
SubqueryAliases(es) ==
    IF es = <<>> THEN <<>>
    ELSE LET e == Head(es)
             own == CASE e.op \in {"EXISTS", "NOT EXISTS"} -> <<e.uid>> \o SubqueryAliases(e.conds)
                      [] e.op \in {"AND", "OR"} -> SubqueryAliases(e.args)
                      [] e.op = "NOT" -> SubqueryAliases(<<e.arg>>)
                      [] OTHER -> <<>>
         IN own \o SubqueryAliases(Tail(es))

NoDuplicates(seq) == \A i, j \in DOMAIN seq : i # j => seq[i] # seq[j]

----------------------------------------------------------------------------
(* Properties of the fragment of Not: Spec.                                *)

\* The fragment of the child of the filter, compiled for field.
ChildFragment(field) == as_sql_expr(Filter.filter, 1, attr_names[Attr], field).sql

----------------------------------------------------------------------------
(* A query on records of several attributes: the two result sets.          *)

FetchIPs == {IPV(<<10, 1, 2, 3>>), IPV(<<8, 8, 8, 8>>)}

\* The records of server s: with and without a number of CPUs, a
\* cancelled flag and additional addresses.
FetchRecordsOf(s) ==
    {BaseRecord(s),
     With(BaseRecord(s), "num_cpu", IntV(s)),
     With(BaseRecord(s), "additional_ips", SetV({IPV(<<10, 1, 2, 3>>)})),
     With(BaseRecord(s), "additional_ips", SetV(FetchIPs)),
     With(With(BaseRecord(s), "num_cpu", IntV(1)), "additional_ips", SetV(FetchIPs)),
     With(With(With(BaseRecord(s), "num_cpu", IntV(2)), "cancelled", PyTrue),
          "additional_ips", SetV({IPV(<<8, 8, 8, 8>>)}))}

FetchQueries ==
    {<<<<"hostname", Any(<<Hostnames[1], Hostnames[2]>>)>>>>,
     <<<<"hostname", ExactMatch(Hostnames[1])>>>>,
     <<<<"additional_ips", Any(SeqOf(FetchIPs))>>>>,
     <<<<"additional_ips", Optional(Any(SeqOf(FetchIPs)))>>>>,
     <<<<"num_cpu", Comparison(StrV(<<">", "=">>), IntV(1))>>,
       <<"additional_ips", Between(IPV(<<8, 8, 8, 8>>), IPV(<<10, 1, 2, 3>>))>>>>}

FetchRestrictSets ==
    {{}, {"hostname"}, {"additional_ips"}, {"hostname", "num_cpu"},
     {"cancelled", "additional_ips"}}

InitFetch ==
    /\ _filters \in FetchQueries
    /\ server_objs \in [ServerIds -> UNION {FetchRecordsOf(s) : s \in ServerIds}]
    /\ \A s \in ServerIds : server_objs[s] \in FetchRecordsOf(s)
    /\ admin_server = AdminServer(server_objs)
    /\ attrib_values = AttribValues(server_objs)
    /\ _restrict \in FetchRestrictSets
    /\ sql_stmt = NoResult
    /\ statements = <<>>
    /\ _results = NoResult
    /\ match_result = NoResult
    /\ wire_obj = NoResult
    /\ parsed = NoResult
    /\ filt = NoResult
    /\ other_filt = NoResult
    /\ eq_result = NoResult
    /\ NoDatabaseError /\ NoTypecast /\ NoCreate /\ NoGateways

NextFetch == FetchResults

SpecFetch == InitFetch /\ [][NextFetch]_vars

\* The rows of attrib_values of server s for attribute a.
StoredRows(s, a) ==
    {r \in attrib_values : r.server_id = s /\ r.attrib_id = attr_names[a].pk}

\* The attributes of attrib_values the value-fetch statement asks for.
FetchedAttrs ==
    {a \in DOMAIN attr_names \ DOMAIN attr_exceptions :
        _restrict # {} => a \in _restrict}

JoinedRows(s) ==
    {env \in LeftJoin({[adms |-> admin_server[s], av |-> b, nav |-> <<>>] :
                          b \in [Range(sql_stmt.sql_from) -> attrib_values]},
                      sql_stmt.sql_left_joins, DB) :
        \A k \in 1..Len(sql_stmt.sql_where) : Eval(sql_stmt.sql_where[k], env, DB) = "T"}

----------------------------------------------------------------------------
(* A query against a database that may fail to execute a statement.        *)

StatementQueries ==
    FetchQueries \cup {<<<<"hostname", Or(<<>>)>>>>,
                       <<<<"rack", ExactMatch(StrV(<<"a">>))>>>>}

InitStatements ==
    /\ _filters \in StatementQueries
    /\ server_objs \in [ServerIds -> UNION {FetchRecordsOf(s) : s \in ServerIds}]
    /\ \A s \in ServerIds : server_objs[s] \in FetchRecordsOf(s)
    /\ admin_server = AdminServer(server_objs)
    /\ attrib_values = AttribValues(server_objs)
    /\ _restrict \in {{}, {"hostname"}, {"additional_ips"}}
    /\ db_error \in SUBSET {"candidate", "values"}
    /\ sql_stmt = NoResult
    /\ statements = <<>>
    /\ _results = NoResult
    /\ match_result = NoResult
    /\ wire_obj = NoResult
    /\ parsed = NoResult
    /\ filt = NoResult
    /\ other_filt = NoResult
    /\ eq_result = NoResult
    /\ NoTypecast /\ NoCreate /\ NoGateways

\* QuerySet._fetch_results on a database that may fail
FetchResultsOn ==
    /\ _results = NoResult
    /\ \E r \in {fetch_results_on(_filters, _restrict, DB, db_error)} :
          /\ sql_stmt' = r.sql_stmt
          /\ statements' = r.statements
          /\ _results' = r.result
    /\ UNCHANGED <<server_objs, admin_server, attrib_values, _filters, _restrict,
                   match_result, wire_obj, parsed, filt, other_filt, eq_result>>
    /\ UNCHANGED <<db_error, typecastVars, createVars, gatewayVars>>

NextStatements == FetchResultsOn

SpecStatements == InitStatements /\ [][NextStatements]_vars

\* The statements of a query that has ended: none when the compilation
\* raised, else the candidate-id statement, followed or not by the
\* value-fetch statement and by nothing else; after a statement that
\* failed there is no statement and the query has raised.
StatementsInOrder ==
    Fetched =>
        /\ Len(statements) <= 2
        /\ Compiled_ = (Len(statements) >= 1)
        /\ Len(statements) >= 1 => statements[1] = [statement |-> "candidate", sql |-> sql_stmt]
        /\ Len(statements) = 2 => statements[2].statement = "values"
        /\ (Compiled_ /\ ("candidate" \in db_error \/ StatementMalformed(sql_stmt))) =>
              Len(statements) = 1 /\ IsRaise(_results)
        /\ (Len(statements) = 2 /\ "values" \in db_error) => IsRaise(_results)

----------------------------------------------------------------------------
(* typecast on a filter of raw operands.                                   *)

RawOperands == {StrV(<<"1">>), StrV(<<"2">>), IntV(1), StrV(<<"a">>)}

RawLeaves ==
    {ExactMatch(v) : v \in RawOperands}
       \cup {Comparison(StrV(<<"<">>), v) : v \in RawOperands}
       \cup {Any(vs) : vs \in SeqsUpTo(RawOperands, 2)}
       \cup {Between(a, b) : a \in {StrV(<<"1">>), IntV(1)}, b \in RawOperands}
       \cup {Regexp(StrV(<<"^", "1">>)), Empty, Startswith(StrV(<<"1">>)), Startswith(IntV(1))}

RawJunctions ==
    LET pool == {ExactMatch(StrV(<<"1">>)), Not(ExactMatch(StrV(<<"2">>))),
                 Any(<<StrV(<<"1">>), IntV(1)>>), Regexp(StrV(<<"^", "1">>)),
                 Between(StrV(<<"1">>), StrV(<<"a">>))}
    IN {And(fs) : fs \in SeqsUpTo(pool, 2)} \cup {Or(fs) : fs \in SeqsUpTo(pool, 2)}

RawFilters ==
    RawLeaves \cup {Not(f) : f \in RawLeaves} \cup {Optional(f) : f \in RawLeaves}
       \cup RawJunctions
       \cup {And(<<Not(ExactMatch(StrV(<<"1">>))),
                   Or(<<Optional(Any(<<StrV(<<"1">>), StrV(<<"2">>)>>)), Empty,
                        Between(StrV(<<"1">>), StrV(<<"2">>))>>)>>),
             Not(Or(<<Comparison(StrV(<<"<">>), StrV(<<"2">>)), Regexp(StrV(<<"^", "1">>))>>))}

InitTypecast ==
    /\ filt \in RawFilters
    /\ cast_attr \in {"num_cpu", "hostname", "cancelled", "intern_ip"}
    /\ cast = NoResult
    /\ server_objs = <<>>
    /\ admin_server = <<>>
    /\ attrib_values = {}
    /\ _filters = <<>>
    /\ _restrict = {}
    /\ sql_stmt = NoResult
    /\ statements = <<>>
    /\ _results = NoResult
    /\ match_result = NoResult
    /\ wire_obj = NoResult
    /\ parsed = NoResult
    /\ other_filt = NoResult
    /\ eq_result = NoResult
    /\ NoDatabaseError /\ NoCreate /\ NoGateways

\* filt.typecast(attr_name)
Typecast ==
    /\ filt # NoResult
    /\ cast_attr # ""
    /\ cast = NoResult
    /\ \E c \in {filter_typecast(filt, cast_attr)} :
          /\ filt' = c.self
          /\ cast' = IF c.raise = "" THEN NoneV ELSE Raise(c.raise)
    /\ UNCHANGED <<server_objs, admin_server, attrib_values, _filters, _restrict, sql_stmt,
                   statements, _results, match_result, wire_obj, parsed, other_filt, eq_result>>
    /\ UNCHANGED <<db_error, cast_attr, createVars, gatewayVars>>

NextTypecast == Typecast

SpecTypecast == InitTypecast /\ [][NextTypecast]_vars

\* The Python type of the values of an attribute.
KindOf(attr) ==
    CASE attr_names[attr].type = "integer" -> "int"
      [] attr_names[attr].type = "boolean" -> "bool"
      [] attr_names[attr].type = "ip" -> "ip"
      [] OTHER -> "str"

\* Whether v is the raw operand x in the type of the attribute.
IsCoerced(v, x, attr) == v = typecast(attr, x) /\ v.kind = KindOf(attr)

\* Whether g is the tree f with every operand of ExactMatch, Comparison,
\* Any and Between coerced: the same variant at every node, the same
\* number of children in the same order, Regexp and Empty as they were.
RECURSIVE CoercedFrom(_, _, _)
CoercedFrom(g, f, attr) ==
    /\ g.name = f.name
    /\ CASE f.name = "exactmatch" -> IsCoerced(g.value, f.value, attr)
         [] f.name = "comparison" ->
               g.comparator = f.comparator /\ IsCoerced(g.value, f.value, attr)
         [] f.name = "any" ->
               /\ \A x \in f.values : \E v \in g.values : IsCoerced(v, x, attr)
               /\ \A v \in g.values : \E x \in f.values : IsCoerced(v, x, attr)
         [] f.name = "between" -> IsCoerced(g.a, f.a, attr) /\ IsCoerced(g.b, f.b, attr)
         [] f.name \in {"and", "or"} ->
               /\ Len(g.filters) = Len(f.filters)
               /\ \A i \in 1..Len(f.filters) : CoercedFrom(g.filters[i], f.filters[i], attr)
         [] f.name \in {"not", "optional"} -> CoercedFrom(g.filter, f.filter, attr)
         [] f.name \in {"regexp", "empty"} -> g = f
         [] OTHER -> TRUE

\* C25: a call of typecast that returns leaves the filter with the operand
\* of every ExactMatch and Comparison, every value of Any and both bounds
\* of Between, at any depth under And, Or, Not and Optional, in the type of
\* the attribute, with the variants and the children of the tree as they
\* were and every Regexp and Empty unchanged.
C25_TypecastCoerces ==
    [][(cast = NoResult /\ cast' = NoneV) => CoercedFrom(filt', filt, cast_attr)]_vars

C25_Witness ==
    /\ cast = NoneV
    /\ cast_attr = "num_cpu"
    /\ filt = And(<<Not(ExactMatch(IntV(1))),
                    Or(<<Optional(Any(<<IntV(1), IntV(2)>>)), Empty,
                         Between(IntV(1), IntV(2))>>)>>)

----------------------------------------------------------------------------
(* create_server (dataset/create.py) from the statement that takes the     *)
(* lock on: concurrent calls, each on its own connection, one step per     *)
(* statement.  The validation before it (lines 32-145) reads its arguments *)
(* and the schema only.  A write is seen by the statements that follow it  *)
(* on every connection; when the call ends, COMMIT has made it permanent.  *)

MaxCalls == 2        \* concurrent calls of create_server

Calls == 1..MaxCalls

\* real_attributes, as the rows _insert_server writes for them in order:
\* one row for each value of a multi attribute, one for any other.
AttributeRows ==
    {<<>>,
     <<<<"num_cpu", IntV(1)>>>>,
     <<<<"additional_ips", IPV(<<0, 0, 0, 1>>)>>, <<"additional_ips", IPV(<<0, 0, 1, 2>>)>>>>,
     <<<<"num_cpu", IntV(2)>>, <<"cancelled", BoolV(TRUE)>>>>}

\* The arguments and the local variables of a call before its first step.
NewCall(hostname, attributes) ==
    [hostname |-> hostname, attributes |-> attributes, got_lock |-> FALSE,
     server_id |-> 0, commit |-> 0, raised |-> ""]

InitCreate ==
    /\ server_objs \in {<<>>, <<BaseRecord(1)>>}
    /\ admin_server = AdminServer(server_objs)
    /\ attrib_values = AttribValues(server_objs)
    /\ lock = 0
    /\ pc = [p \in Calls |-> "get_lock"]
    /\ call \in [Calls -> {NewCall(Hostnames[h], rows) : h \in 1..2, rows \in AttributeRows}]
    /\ change_log = {}
    /\ _filters = <<>>
    /\ _restrict = {}
    /\ sql_stmt = NoResult
    /\ statements = <<>>
    /\ _results = NoResult
    /\ match_result = NoResult
    /\ wire_obj = NoResult
    /\ parsed = NoResult
    /\ filt = NoResult
    /\ other_filt = NoResult
    /\ eq_result = NoResult
    /\ NoDatabaseError /\ NoTypecast /\ NoGateways

\* What a step of create_server leaves alone.
CreateFrame ==
    UNCHANGED <<server_objs, _filters, _restrict, sql_stmt, statements, _results,
                match_result, wire_obj, parsed, filt, other_filt, eq_result, db_error,
                typecastVars, gatewayVars>>

\* The call goes on to the finally clause with exception exc.
Raised(p, exc) ==
    /\ call' = [call EXCEPT ![p].raised = exc]
    /\ pc' = [pc EXCEPT ![p] = "finally"]

\* GET_LOCK going on to _insert_server whatever it returned.
GetLock_unchecked(p) ==
    /\ pc[p] = "get_lock"
    /\ lock' = IF lock = 0 THEN p ELSE lock
    /\ call' = [call EXCEPT ![p].got_lock = TRUE]
    /\ pc' = [pc EXCEPT ![p] = "count"]
    /\ UNCHANGED <<admin_server, attrib_values, change_log>>
    /\ CreateFrame

\* SELECT GET_LOCK('serverobject_commit', 10): 1 when the lock is free or
\* is freed within the timeout, which is the step waiting for lock = 0;
\* 0 when another connection holds it for the ten seconds, and then
\* raise CommitError(u'Could not get lock') before the try.
GetLock(p) ==
    /\ pc[p] = "get_lock"
    /\ \/ /\ lock = 0
          /\ lock' = p
          /\ call' = [call EXCEPT ![p].got_lock = TRUE]
          /\ pc' = [pc EXCEPT ![p] = "count"]
       \/ /\ lock # 0
          /\ lock' = lock
          /\ call' = [call EXCEPT ![p].raised = "CommitError"]
          /\ pc' = [pc EXCEPT ![p] = "done"]
    /\ UNCHANGED <<admin_server, attrib_values, change_log>>
    /\ CreateFrame

\* _insert_server: SELECT COUNT(*) FROM admin_server WHERE hostname = %s
CountHostname(p) ==
    /\ pc[p] = "count"
    /\ IF \E s \in DOMAIN admin_server : admin_server[s].hostname = call[p].hostname
       THEN Raised(p, "CommitError")
       ELSE pc' = [pc EXCEPT ![p] = "insert_server"] /\ call' = call
    /\ UNCHANGED <<lock, admin_server, attrib_values, change_log>>
    /\ CreateFrame

\* Where _insert_server goes after a row: the next attribute row, or back
\* to create_server and its else clause.
AfterRow(attributes) == IF attributes = <<>> THEN "change_log" ELSE "insert_attrs"

\* _insert_server: INSERT INTO admin_server, server_id = cursor.lastrowid
InsertServer(p) ==
    /\ pc[p] = "insert_server"
    /\ \/ LET server_id == Cardinality(DOMAIN admin_server) + 1
          IN /\ admin_server' =
                   [s \in DOMAIN admin_server \cup {server_id} |->
                       IF s = server_id
                       THEN AdminRow(server_id, call[p].hostname, IPV(<<10, 1, 2, 3>>),
                                     StrV(<<"a">>), 1)
                       ELSE admin_server[s]]
             /\ call' = [call EXCEPT ![p].server_id = server_id]
             /\ pc' = [pc EXCEPT ![p] = AfterRow(call[p].attributes)]
       \/ admin_server' = admin_server /\ Raised(p, "DatabaseError")
    /\ UNCHANGED <<lock, attrib_values, change_log>>
    /\ CreateFrame

\* _insert_server: attr_obj = lookups.attr_names[attr_name], then
\* INSERT INTO attrib_values (server_id, attrib_id, value)
InsertAttribute(p) ==
    /\ pc[p] = "insert_attrs"
    /\ \E row \in {Head(call[p].attributes)} :
          \/ /\ \E value \in {prepare_value(attr_names[row[1]], row[2])} :
                   attrib_values' = attrib_values \cup
                      {[server_id |-> call[p].server_id,
                        attrib_id |-> attr_names[row[1]].pk, value |-> value]}
             /\ call' = [call EXCEPT ![p].attributes = Tail(@)]
             /\ pc' = [pc EXCEPT ![p] = AfterRow(Tail(call[p].attributes))]
          \/ /\ attrib_values' = attrib_values
             /\ Raised(p, "DatabaseError")
    /\ UNCHANGED <<lock, admin_server, change_log>>
    /\ CreateFrame

\* A row of the change log: of ChangeCommit (kind "commit"), or of
\* ChangeAdd (kind "add"), which names its commit and the hostname.
ChangeRow(kind, commit, hostname) == [kind |-> kind, commit |-> commit, hostname |-> hostname]

\* else: commit = ChangeCommit.objects.create(..), then
\* ChangeAdd.objects.create(commit=commit, hostname=hostname, ..); either
\* create can raise, the second after the row of the first is written.
ChangeLog(p) ==
    /\ pc[p] = "change_log"
    /\ \E commit \in {Cardinality({e \in change_log : e.kind = "commit"}) + 1} :
          \/ /\ change_log' = change_log
             /\ Raised(p, "DatabaseError")
          \/ /\ change_log' = change_log \cup {ChangeRow("commit", commit, "")}
             /\ call' = [call EXCEPT ![p].commit = commit, ![p].raised = "DatabaseError"]
             /\ pc' = [pc EXCEPT ![p] = "finally"]
          \/ /\ change_log' = change_log \cup
                   {ChangeRow("commit", commit, ""), ChangeRow("add", commit, call[p].hostname)}
             /\ call' = [call EXCEPT ![p].commit = commit]
             /\ pc' = [pc EXCEPT ![p] = "finally"]
    /\ UNCHANGED <<lock, admin_server, attrib_values>>
    /\ CreateFrame

\* The clauses of the try with the lock released only after a call that
\* did not raise.
Finally_after_success(p) ==
    /\ pc[p] = "finally"
    /\ lock' = IF lock = p /\ call[p].raised = "" THEN 0 ELSE lock
    /\ pc' = [pc EXCEPT ![p] = "done"]
    /\ UNCHANGED <<call, admin_server, attrib_values, change_log>>
    /\ CreateFrame

\* finally: COMMIT, SELECT RELEASE_LOCK('serverobject_commit'); then the
\* call returns server_id or the exception goes on.  RELEASE_LOCK frees
\* the lock of the connection that holds it.
Finally(p) ==
    /\ pc[p] = "finally"
    /\ lock' = IF lock = p THEN 0 ELSE lock
    /\ pc' = [pc EXCEPT ![p] = "done"]
    /\ UNCHANGED <<call, admin_server, attrib_values, change_log>>
    /\ CreateFrame

NextCreate ==
    \E p \in Calls :
       \/ GetLock(p)
       \/ CountHostname(p)
       \/ InsertServer(p)
       \/ InsertAttribute(p)
       \/ ChangeLog(p)
       \/ Finally(p)

SpecCreate == InitCreate /\ [][NextCreate]_vars

\* A call that holds the lock goes on to the next statement.
Running(p) ==
    CountHostname(p) \/ InsertServer(p) \/ InsertAttribute(p) \/ ChangeLog(p) \/ Finally(p)

SpecCreateFair == SpecCreate /\ \A p \in Calls : WF_vars(Running(p))

\* Call p has ended with an exception after it got the lock.
FailedWithLock(p) == pc[p] = "done" /\ call[p].got_lock /\ call[p].raised # ""

\* C26: when a call that got the lock has ended with an exception, no row
\* of admin_server and no row of attrib_values carries the server id of
\* the call, and no row of the change log carries a commit of the call.
C26_NothingPersisted ==
    \A p \in Calls :
       FailedWithLock(p) =>
          /\ call[p].server_id \notin DOMAIN admin_server
          /\ \A r \in attrib_values : r.server_id # call[p].server_id
          /\ \A e \in change_log : e.commit # call[p].commit

\* C27: a call is between its existence check and its release only while
\* it holds the lock, no two rows of admin_server share a hostname, and of
\* the calls for one hostname at most one returns.
C27_HostnameUnique ==
    /\ \A p \in Calls :
          pc[p] \in {"count", "insert_server", "insert_attrs", "change_log", "finally"} =>
             lock = p
    /\ \A s, t \in DOMAIN admin_server :
          s # t => admin_server[s].hostname # admin_server[t].hostname
    /\ \A p, q \in Calls :
          (p # q /\ pc[p] = "done" /\ pc[q] = "done" /\ call[p].raised = ""
              /\ call[q].raised = "") => call[p].hostname # call[q].hostname

C27_Witness ==
    \E p, q \in Calls :
       /\ p # q
       /\ call[p].hostname = call[q].hostname
       /\ pc[p] = "done" /\ call[p].raised = "" /\ call[p].server_id \in DOMAIN admin_server
       /\ pc[q] = "done" /\ call[q].got_lock /\ call[q].raised = "CommitError"
       /\ call[q].server_id = 0

----------------------------------------------------------------------------
(* get_gateways (iprange/models.py): the table ip_range and one call, a    *)
(* step for the query that picks the range and a step for each call of     *)
(* get_gw.  An address 10.0.0.n of min, max and ip is held as n, which is  *)
(* what int() and the comparisons of the query see of it.  get_gateways6   *)
(* is the same walk over min6, max6, gateway6 and internal_gateway6.       *)

MaxRanges == 2       \* rows of ip_range
MaxAddress == 3      \* min, max and ip are 10.0.0.0 .. 10.0.0.MaxAddress

\* sys.getrecursionlimit() is 1000 frames; here it stays above the length
\* of the longest belongs_to chain that ends.
RecursionLimit == MaxRanges + 2

RangeIds == 1..MaxRanges
Addresses == 0..MaxAddress
GwAttrs == <<"gateway", "internal_gateway">>

\* The gateways a row can hold: of range r, 10.0.r.1 and 10.0.r.2.
GatewayOf(r, gw_attr) == IPV(<<10, 0, r, IF gw_attr = "gateway" THEN 1 ELSE 2>>)

\* A row of ip_range; belongs_to_id 0 is NULL.
IPRange(min, max, ip_type, gateway, internal_gateway, belongs_to_id) ==
    [min |-> min, max |-> max, ip_type |-> ip_type, gateway |-> gateway,
     internal_gateway |-> internal_gateway, belongs_to_id |-> belongs_to_id]

\* The rows range r can be.  belongs_to is a foreign key to the table
\* itself, so it names a row of the table or is NULL.
IPRanges(r, ids) ==
    {IPRange(e[1], e[2], t, g, i, b) :
        e \in {<<0, 3>>, <<0, 1>>, <<1, 2>>}, t \in {"ip", "public_ip"},
        g \in {NoneV, GatewayOf(r, "gateway")},
        i \in {NoneV, GatewayOf(r, "internal_gateway")}, b \in {0} \cup ids}

\* The local variables of a call of get_gateways(ip) before its first step.
NewGateways(ip) ==
    [ip |-> ip, pc |-> "filter", iprange_obj |-> 0, gw_attr |-> 1, obj |-> 0, depth |-> 0,
     gateways |-> <<NoResult, NoResult>>, raised |-> ""]

InitGateways ==
    /\ \E n \in RangeIds : ip_range \in [1..n -> UNION {IPRanges(r, 1..n) : r \in 1..n}]
    /\ \A r \in DOMAIN ip_range : ip_range[r] \in IPRanges(r, DOMAIN ip_range)
    /\ gw \in {NewGateways(ip) : ip \in Addresses}
    /\ server_objs = <<>>
    /\ admin_server = AdminServer(server_objs)
    /\ attrib_values = AttribValues(server_objs)
    /\ _filters = <<>>
    /\ _restrict = {}
    /\ sql_stmt = NoResult
    /\ statements = <<>>
    /\ _results = NoResult
    /\ match_result = NoResult
    /\ wire_obj = NoResult
    /\ parsed = NoResult
    /\ filt = NoResult
    /\ other_filt = NoResult
    /\ eq_result = NoResult
    /\ NoDatabaseError /\ NoTypecast /\ NoCreate

GatewaysFrame ==
    UNCHANGED <<server_objs, admin_server, attrib_values, _filters, _restrict, sql_stmt,
                statements, _results, match_result, wire_obj, parsed, filt, other_filt,
                eq_result, db_error, typecastVars, createVars, ip_range>>

\* IPRange.objects.filter(min__lte=ip, max__gte=ip)
Filtered(ip) == {r \in DOMAIN ip_range : ip_range[r].min <= ip /\ ip <= ip_range[r].max}

\* get_range_size
get_range_size(r) == ip_range[r].max - ip_range[r].min

\* get_network: summarize_address_range(min, max) is one network when the
\* range is 2^k addresses from a multiple of 2^k; its prefix length then,
\* and 0 for raise ValueError('The min and max addresses does not ..').
get_network(r) ==
    LET ks == {k \in 0..8 : /\ get_range_size(r) + 1 = Pow2(k)
                            /\ ip_range[r].min % Pow2(k) = 0}
    IN IF ks = {} THEN 0 ELSE 32 - (CHOOSE k \in ks : TRUE)

\* get_netmask: '255.255.0.0' for a private range, else
\* str(get_network().netmask)
get_netmask(r) ==
    IF ip_range[r].ip_type = "ip" THEN StrV(PyStr(IPV(<<255, 255, 0, 0>>)))
    ELSE IF get_network(r) = 0 THEN Raise("ValueError")
    ELSE StrV(PyStr(IPV(netmask(get_network(r)))))

\* ipranges = ..filter(..); raise ValueError('IP is not in known IP ranges')
\* when there is none; iprange_obj = min(ipranges, key=get_range_size): the
\* first of the smallest in the order of the rows, which the query does not
\* fix.  Then the first call of get_gw.
GetGateways ==
    /\ gw.pc = "filter"
    /\ IF Filtered(gw.ip) = {}
       THEN gw' = [gw EXCEPT !.raised = "ValueError", !.pc = "done"]
       ELSE \E r \in {m \in Filtered(gw.ip) :
                         \A o \in Filtered(gw.ip) : get_range_size(m) <= get_range_size(o)} :
               gw' = [gw EXCEPT !.iprange_obj = r, !.obj = r, !.depth = 1, !.pc = "get_gw"]
    /\ GatewaysFrame

\* The call goes on after get_gw has returned result: to get_gw for the
\* next key of the dictionary, or to its return.
Returned(result) ==
    IF gw.gw_attr < Len(GwAttrs)
    THEN [gw EXCEPT !.gateways[gw.gw_attr] = result, !.gw_attr = @ + 1,
                    !.obj = gw.iprange_obj, !.depth = 1]
    ELSE [gw EXCEPT !.gateways[gw.gw_attr] = result, !.pc = "done"]

\* One call of get_gw(iprange_obj, gw_attr): return [gateway, netmask] of
\* this range, None without belongs_to, or get_gw of the range it belongs
\* to.  The interpreter raises RuntimeError('maximum recursion depth
\* exceeded') for the call that passes its limit.
GetGw ==
    /\ gw.pc = "get_gw"
    /\ \E row \in {ip_range[gw.obj]} :
          IF row[GwAttrs[gw.gw_attr]] # NoneV
          THEN \E mask \in {get_netmask(gw.obj)} :
                  IF IsRaise(mask)
                  THEN gw' = [gw EXCEPT !.raised = mask.raise, !.pc = "done"]
                  ELSE gw' = Returned(ListV(<<row[GwAttrs[gw.gw_attr]], mask>>))
          ELSE IF row.belongs_to_id = 0
          THEN gw' = Returned(NoneV)
          ELSE IF gw.depth = RecursionLimit
          THEN gw' = [gw EXCEPT !.raised = "RuntimeError", !.pc = "done"]
          ELSE gw' = [gw EXCEPT !.obj = row.belongs_to_id, !.depth = @ + 1]
    /\ GatewaysFrame

NextGateways == GetGateways \/ GetGw

SpecGateways == InitGateways /\ [][NextGateways]_vars

\* The range k steps along the belongs_to chain of r; 0 after its end.
RECURSIVE ChainAt(_, _)
ChainAt(r, k) ==
    IF k = 0 \/ r = 0 THEN r ELSE ChainAt(ip_range[r].belongs_to_id, k - 1)

\* The nearest range on the chain of r that has the gateway; 0 for none.
Nearest(r, gw_attr) ==
    LET ks == {k \in 0..MaxRanges :
                  /\ ChainAt(r, k) # 0
                  /\ ip_range[ChainAt(r, k)][gw_attr] # NoneV}
    IN IF ks = {} THEN 0 ELSE ChainAt(r, CHOOSE k \in ks : \A j \in ks : k <= j)

\* C29: when get_gateways has ended, an address in no range has raised
\* ValueError; otherwise the range picked is one of the matching ranges and
\* no matching range is smaller, the walk has not run into the recursion
\* limit, and a call that returned holds for each kind the gateway of the
\* nearest range on the chain that has one, or None when there is none.
\* ValueError from get_network of a public range that is no network is not
\* held against the property.
C29_Gateways ==
    gw.pc = "done" =>
       IF Filtered(gw.ip) = {}
       THEN gw.raised = "ValueError" /\ gw.iprange_obj = 0
       ELSE /\ gw.iprange_obj \in Filtered(gw.ip)
            /\ \A o \in Filtered(gw.ip) : get_range_size(gw.iprange_obj) <= get_range_size(o)
            /\ gw.raised # "RuntimeError"
            /\ gw.raised = "" =>
                  \A a \in DOMAIN GwAttrs :
                     LET n == Nearest(gw.iprange_obj, GwAttrs[a])
                     IN IF n = 0 THEN gw.gateways[a] = NoneV
                        ELSE /\ gw.gateways[a].kind = "list"
                             /\ gw.gateways[a].elems[1] = GatewayOf(n, GwAttrs[a])

====
